---------------------------- MODULE Spec2Model ----------------------------
(***************************************************************************)
(* A model of the FlatBuffers binary format as used by the generated       *)
(* MyGame.Example code (tests/monster_test_generated.h) and emitted by the *)
(* Java generator (src/idl_gen_java.cpp).                                  *)
(*                                                                         *)
(* The buffer is a sequence of bytes.  While a buffer is being built the   *)
(* sequence holds the written part only, lowest address first: the builder *)
(* grows toward lower addresses, so a write prepends.  A builder offset    *)
(* (uoffset_t returned by the builder) counts bytes from the END of the    *)
(* buffer; a position counts bytes from the start of the sequence.         *)
(*                                                                         *)
(* The runtime library (flatbuffers.h: FlatBufferBuilder, Table, Verifier) *)
(* and the schema parser (idl_parser.cpp) are not among the sources; their *)
(* operators below follow the format description and are marked so in the  *)
(* model map.  The generated header and the Java generator are translated  *)
(* from their code.                                                        *)
(***************************************************************************)
EXTENDS Integers, Sequences, FiniteSets, TLC

\* ------------------------------------------------------------------
\* Scalars and little-endian bytes
\* ------------------------------------------------------------------

Max(a, b) == IF a >= b THEN a ELSE b

Min(a, b) == IF a <= b THEN a ELSE b

Pow256(i) == IF i = 0 THEN 1 ELSE IF i = 1 THEN 256 ELSE IF i = 2 THEN 65536 ELSE 16777216

Zeros(n) == [i \in 1..n |-> 0]

\* Byte i (0 = least significant) of the two's complement encoding of v.
\* Model values stay within 31 bits, bytes 4..7 are the sign extension.
ByteOf(v, i) ==
  IF v >= 0
    THEN (IF i < 4 THEN (v \div Pow256(i)) % 256 ELSE 0)
    ELSE (IF i < 4 THEN 255 - ((((-v) - 1) \div Pow256(i)) % 256) ELSE 255)

\* flatbuffers::EndianScalar / WriteScalar: the n bytes of v, little-endian.
EndianScalar(v, n) == [i \in 1..n |-> ByteOf(v, i - 1)]

RECURSIVE SumBytes(_, _, _, _)
SumBytes(B, p, i, n) ==
  IF i >= n THEN 0 ELSE B[p + 1 + i] * Pow256(i) + SumBytes(B, p, i + 1, n)

RECURSIVE SumInvBytes(_, _, _, _)
SumInvBytes(B, p, i, n) ==
  IF i >= n THEN 0 ELSE (255 - B[p + 1 + i]) * Pow256(i) + SumInvBytes(B, p, i + 1, n)

\* Every unsigned value of 2^30 or more reads as Huge: it lies far beyond any
\* buffer of the model, and sums of positions and offsets stay representable.
Huge == 1073741824

\* flatbuffers::ReadScalar<unsigned>: the n-byte unsigned value at position p.
ReadU(B, p, n) ==
  IF n >= 4 /\ B[p + 4] >= 64 THEN Huge ELSE SumBytes(B, p, 0, Min(n, 4))

\* flatbuffers::ReadScalar<signed>: the n-byte two's complement value at p.
ReadS(B, p, n) ==
  IF B[p + n] >= 128 THEN (-SumInvBytes(B, p, 0, Min(n, 4))) - 1
  ELSE SumBytes(B, p, 0, Min(n, 4))

\* Scalar types of the generated code: size in bytes and signedness.
SizeOf(ty) ==
  CASE ty \in {"int8", "uint8"} -> 1
    [] ty \in {"int16", "uint16"} -> 2
    [] ty \in {"int32", "uint32", "float", "uoffset"} -> 4
    [] ty \in {"int64", "uint64", "double"} -> 8

IsSigned(ty) == ty \in {"int8", "int16", "int32", "int64"}

ReadScalar(B, p, ty) ==
  IF IsSigned(ty) THEN ReadS(B, p, SizeOf(ty)) ELSE ReadU(B, p, SizeOf(ty))

\* ------------------------------------------------------------------
\* FlatBufferBuilder (flatbuffers.h), as a record
\*   buf        the bytes written so far, lowest address first
\*   minalign   the largest alignment seen
\*   offsetbuf  the fields recorded for the table being built: <<off, id>>
\*   vtables    the builder offsets of the vtables emitted so far
\*   required   the <<table, field>> pairs registered by Required
\*   failed     a missing required field was reported (construction aborts)
\* ------------------------------------------------------------------

NewBuilder ==
  [buf |-> <<>>, minalign |-> 1, offsetbuf |-> <<>>, vtables |-> <<>>,
   required |-> <<>>, nested |-> FALSE, failed |-> FALSE]

GetSize(b) == Len(b.buf)

PaddingBytes(buf_size, scalar_size) ==
  (scalar_size - (buf_size % scalar_size)) % scalar_size

TrackMinAlign(b, elem_size) == [b EXCEPT !.minalign = Max(@, elem_size)]

Fill(b, n) == [b EXCEPT !.buf = Zeros(n) \o @]

Align(b, elem_size) ==
  Fill(TrackMinAlign(b, elem_size), PaddingBytes(GetSize(b), elem_size))

PreAlign(b, len, alignment) ==
  Fill(TrackMinAlign(b, alignment), PaddingBytes(GetSize(b) + len, alignment))

PushBytes(b, bytes) == [b EXCEPT !.buf = bytes \o @]

PushElement(b, v, n) == PushBytes(Align(b, n), EndianScalar(v, n))

TrackField(b, field, off) ==
  [b EXCEPT !.offsetbuf = Append(@, <<off, field>>)]

\* A call the builder's state does not allow is fatal: construction stops
\* and nothing more is written.
UsageError(b) == [b EXCEPT !.failed = TRUE]

\* AddElement<T>(field, e, def): nothing is written for the default; a field
\* is only added between StartTable and EndTable.
AddElement(b, field, e, def, n) ==
  IF ~b.nested THEN UsageError(b)
  ELSE IF e = def THEN b
  ELSE LET b1 == PushElement(b, e, n) IN TrackField(b1, field, GetSize(b1))

\* ReferTo measuring from the end of the field about to be written.
ReferTo_from_field_end(b, off) == GetSize(Align(b, 4)) - off

\* ReferTo(off): the relative offset, from the field about to be written,
\* to the object at builder offset off.
ReferTo(b, off) == GetSize(Align(b, 4)) - off + 4

\* AddOffset(field, off): a null offset writes nothing.
AddOffset(b, field, off) ==
  IF ~b.nested THEN UsageError(b)
  ELSE IF off = 0 THEN b
  ELSE AddElement(Align(b, 4), field, ReferTo(b, off), 0, 4)

\* AddStruct(field, structptr): the struct's bytes inline, at its alignment.
AddStruct(b, field, bytes, alignment) ==
  IF ~b.nested THEN UsageError(b)
  ELSE IF bytes = <<>> THEN b
  ELSE LET b1 == PushBytes(Align(b, alignment), bytes)
       IN TrackField(b1, field, GetSize(b1))

\* StartTable(): the start of the table, and the builder with the table's
\* bracket open.
StartTable(b) == GetSize(b)
StartTable_nested(b) == [b EXCEPT !.nested = TRUE]


\* Vtable byte offset of the field with index i.
FieldIndexToOffset(i) == (i + 2) * 2

\* The largest element of a non-empty set of integers.
MaxOf(S) == CHOOSE m \in S : \A x \in S : x <= m

\* Number of vtable entries emitted: up to the last recorded slot (trailing
\* absent slots are trimmed).
VTableSlots(offsetbuf) ==
  IF offsetbuf = <<>> THEN 0
  ELSE ((MaxOf({offsetbuf[k][2] : k \in 1..Len(offsetbuf)}) - 4) \div 2) + 1

\* The vtable entry of the field at vtable offset id: its distance from the
\* table start, 0 when the field was not recorded.
VTableEntry(offsetbuf, vtableoffsetloc, id) ==
  LET ks == {k \in 1..Len(offsetbuf) : offsetbuf[k][2] = id}
  IN IF ks = {} THEN 0 ELSE vtableoffsetloc - offsetbuf[MaxOf(ks)][1]

\* The candidate vtable: its own size, the table's size, one entry per slot.
VTableBytes(offsetbuf, vtableoffsetloc, start) ==
  LET n == VTableSlots(offsetbuf)
  IN EndianScalar(FieldIndexToOffset(n), 2)
     \o EndianScalar(vtableoffsetloc - start, 2)
     \o [i \in 1..(2 * n) |->
           ByteOf(VTableEntry(offsetbuf, vtableoffsetloc,
                              FieldIndexToOffset((i - 1) \div 2)),
                  (i - 1) % 2)]

\* The bytes of the vtable stored at builder offset vt.
StoredVTable(buf, vt) ==
  LET p == Len(buf) - vt
  IN SubSeq(buf, p + 1, p + ReadU(buf, p, 2))

\* The builder offset the table ended by EndTable gets.
EndTableOffset(b) == GetSize(PushElement(b, 0, 4))

\* The vtable of the table whose fields b has recorded since start.
TableVTable(b, start) == VTableBytes(b.offsetbuf, EndTableOffset(b), start)

\* EndTable that stores every table's vtable, never reusing one.
EndTable_always_appends(b, start, numfields) ==
  LET b1 == PushElement(b, 0, 4)
      vtableoffsetloc == GetSize(b1)
      vt1 == VTableBytes(b1.offsetbuf, vtableoffsetloc, start)
      table == EndianScalar(Len(vt1), 4) \o SubSeq(b1.buf, 5, Len(b1.buf))
  IN IF ~b.nested \/ VTableSlots(b.offsetbuf) > numfields THEN UsageError(b)
     ELSE [b1 EXCEPT !.buf = vt1 \o table,
                     !.offsetbuf = <<>>,
                     !.nested = FALSE,
                     !.vtables = Append(@, vtableoffsetloc + Len(vt1))]

\* EndTable(start, numfields): writes the table's vtable offset, builds the
\* vtable, reuses an identical stored vtable or appends the new one, and
\* closes the table's bracket.  Ending a table that is not open, or one with
\* a field recorded for a slot beyond numfields, is a usage error.
EndTable(b, start, numfields) ==
  LET b1 == PushElement(b, 0, 4)
      vtableoffsetloc == GetSize(b1)
      vt1 == VTableBytes(b1.offsetbuf, vtableoffsetloc, start)
      same == {k \in 1..Len(b1.vtables) : StoredVTable(b1.buf, b1.vtables[k]) = vt1}
      vt_use == IF same = {} THEN vtableoffsetloc + Len(vt1)
                ELSE b1.vtables[MaxOf(same)]
      table == EndianScalar(vt_use - vtableoffsetloc, 4)
               \o SubSeq(b1.buf, 5, Len(b1.buf))
  IN IF ~b.nested \/ VTableSlots(b.offsetbuf) > numfields THEN UsageError(b)
     ELSE [b1 EXCEPT !.buf = IF same = {} THEN vt1 \o table ELSE table,
                     !.offsetbuf = <<>>,
                     !.nested = FALSE,
                     !.vtables = IF same = {} THEN Append(@, vt_use) ELSE @]

\* Required(table, field): the field must be present when the buffer is
\* finished.
Required(b, table, field) == [b EXCEPT !.required = Append(@, <<table, field>>)]

\* CreateString(str): length, bytes, terminator, padded to 4.
CreateString(b, str) ==
  PushElement(PushBytes(Fill(PreAlign(b, Len(str) + 1, 4), 1), str), Len(str), 4)

StartVector(b, len, elemsize) ==
  PreAlign(PreAlign(b, len * elemsize, 4), len * elemsize, elemsize)

EndVector(b, len) == PushElement(b, len, 4)

\* CreateVector of scalars: the elements are pushed from the last down.
RECURSIVE PushElements(_, _, _, _)
PushElements(b, v, i, elemsize) ==
  IF i = 0 THEN b
  ELSE PushElements(PushElement(b, v[i], elemsize), v, i - 1, elemsize)

CreateVector(b, v, elemsize) ==
  EndVector(PushElements(StartVector(b, Len(v), elemsize), v, Len(v), elemsize), Len(v))

\* CreateVector of offsets: each element refers to its object.
RECURSIVE PushOffsets(_, _, _)
PushOffsets(b, v, i) ==
  IF i = 0 THEN b
  ELSE PushOffsets(PushElement(b, ReferTo(b, v[i]), 4), v, i - 1)

CreateVectorOfOffsets(b, v) ==
  EndVector(PushOffsets(StartVector(b, Len(v), 4), v, Len(v)), Len(v))

RECURSIVE Concat(_)
Concat(ss) == IF ss = <<>> THEN <<>> ELSE Head(ss) \o Concat(Tail(ss))

\* CreateVectorOfStructs: the structs' bytes, at the struct's alignment.
CreateVectorOfStructs(b, v, size, alignment) ==
  EndVector(PushBytes(StartVector(b, (Len(v) * size) \div alignment, alignment),
                      Concat(v)),
            Len(v))

\* ------------------------------------------------------------------
\* Table (flatbuffers.h): the accessor protocol.  B is a whole buffer, t the
\* position of a table in it.
\* ------------------------------------------------------------------

\* The absent indicator of pointer accessors.
nullptr == 0 - 1

GetVTable(B, t) == t - ReadS(B, t, 4)

GetOptionalFieldOffset(B, t, field) ==
  LET vtable == GetVTable(B, t)
  IN IF field < ReadU(B, vtable, 2) THEN ReadU(B, vtable + field, 2) ELSE 0

GetField(B, t, field, ty, def) ==
  LET field_offset == GetOptionalFieldOffset(B, t, field)
  IN IF field_offset # 0 THEN ReadScalar(B, t + field_offset, ty) ELSE def

GetPointer(B, t, field) ==
  LET field_offset == GetOptionalFieldOffset(B, t, field)
  IN IF field_offset # 0
     THEN (t + field_offset) + ReadU(B, t + field_offset, 4)
     ELSE nullptr

GetStruct(B, t, field) ==
  LET field_offset == GetOptionalFieldOffset(B, t, field)
  IN IF field_offset # 0 THEN t + field_offset ELSE nullptr

\* flatbuffers::String and flatbuffers::Vector at position p.
VectorSize(B, p) == ReadU(B, p, 4)

StringBytes(B, p) == SubSeq(B, p + 5, p + 4 + VectorSize(B, p))

VectorData(B, p) == p + 4

\* GetRoot<T>(buf)
GetRoot(B) == ReadU(B, 0, 4)

\* BufferHasIdentifier(buf, identifier): the bytes after the root offset are
\* those of the identifier.
BufferHasIdentifier(B, identifier) ==
  /\ Len(B) >= 4 + Len(identifier)
  /\ SubSeq(B, 5, 4 + Len(identifier)) = identifier

\* Whether every field registered by Required is present in its table.
RequiredPresent(b) ==
  \A k \in 1..Len(b.required) :
    GetOptionalFieldOffset(b.buf, GetSize(b) - b.required[k][1], b.required[k][2]) # 0

\* Finish(root, file_identifier): pads to the largest alignment, then writes
\* the identifier (when given) and the root offset at the start; with a
\* required field missing, a table still open or construction already
\* stopped it reports the failure and writes nothing.
Finish(b, root, file_identifier) ==
  LET b1 == PushBytes(PreAlign(b, 4 + Len(file_identifier), b.minalign),
                      file_identifier)
  IN IF b.failed \/ b.nested \/ ~RequiredPresent(b) THEN UsageError(b)
     ELSE PushElement(b1, ReferTo(b1, root), 4)


\* ------------------------------------------------------------------
\* The generated code (tests/monster_test_generated.h).
\* An accessor is described by the vtable offset it reads, the kind of
\* library accessor it calls (GetField, GetStruct, GetPointer), the type
\* read (the element or pointee type for a pointer) and the default it
\* passes; an add method by the vtable offset, the builder call, the type
\* and the default it passes.
\* ------------------------------------------------------------------

TestSimpleTableWithEnum_color ==
  [name |-> "color", off |-> 4, kind |-> "scalar", ty |-> "int8", def |-> 2]

\* The accessors of TestSimpleTableWithEnum, in declaration order.
TestSimpleTableWithEnumAccessors ==
  <<TestSimpleTableWithEnum_color>>

TestSimpleTableWithEnumBuilder_add_color ==
  [name |-> "color", off |-> 4, kind |-> "scalar", op |-> "AddElement",
   ty |-> "int8", def |-> 2]

\* The add methods of TestSimpleTableWithEnumBuilder.
TestSimpleTableWithEnumBuilderAdds ==
  <<TestSimpleTableWithEnumBuilder_add_color>>

Stat_id ==
  [name |-> "id", off |-> 4, kind |-> "string", ty |-> "string", def |-> 0]

Stat_val ==
  [name |-> "val", off |-> 6, kind |-> "scalar", ty |-> "int64", def |-> 0]

Stat_count ==
  [name |-> "count", off |-> 8, kind |-> "scalar", ty |-> "uint16", def |-> 0]

\* The accessors of Stat, in declaration order.
StatAccessors ==
  <<Stat_id, Stat_val, Stat_count>>

StatBuilder_add_id ==
  [name |-> "id", off |-> 4, kind |-> "string", op |-> "AddOffset",
   ty |-> "string", def |-> 0]

StatBuilder_add_val ==
  [name |-> "val", off |-> 6, kind |-> "scalar", op |-> "AddElement",
   ty |-> "int64", def |-> 0]

StatBuilder_add_count ==
  [name |-> "count", off |-> 8, kind |-> "scalar", op |-> "AddElement",
   ty |-> "uint16", def |-> 0]

\* The add methods of StatBuilder.
StatBuilderAdds ==
  <<StatBuilder_add_id, StatBuilder_add_val,
    StatBuilder_add_count>>

Monster_pos ==
  [name |-> "pos", off |-> 4, kind |-> "struct", ty |-> "Vec3", def |-> 0]

\* mana() with hp's default.
Monster_mana_default_of_hp ==
  [name |-> "mana", off |-> 6, kind |-> "scalar", ty |-> "int16", def |-> 100]

Monster_mana ==
  [name |-> "mana", off |-> 6, kind |-> "scalar", ty |-> "int16", def |-> 150]

Monster_hp ==
  [name |-> "hp", off |-> 8, kind |-> "scalar", ty |-> "int16", def |-> 100]

Monster_name ==
  [name |-> "name", off |-> 10, kind |-> "string", ty |-> "string", def |-> 0]

Monster_inventory ==
  [name |-> "inventory", off |-> 14, kind |-> "vector", ty |-> "uint8", def |-> 0]

Monster_color ==
  [name |-> "color", off |-> 16, kind |-> "scalar", ty |-> "int8", def |-> 8]

Monster_test_type ==
  [name |-> "test_type", off |-> 18, kind |-> "scalar", ty |-> "uint8", def |-> 0]

Monster_test ==
  [name |-> "test", off |-> 20, kind |-> "union", ty |-> "Any", def |-> 0]

Monster_test4 ==
  [name |-> "test4", off |-> 22, kind |-> "vector", ty |-> "Test", def |-> 0]

Monster_testarrayofstring ==
  [name |-> "testarrayofstring", off |-> 24, kind |-> "vector", ty |-> "string", def |-> 0]

Monster_testarrayoftables ==
  [name |-> "testarrayoftables", off |-> 26, kind |-> "vector", ty |-> "Monster", def |-> 0]

Monster_enemy ==
  [name |-> "enemy", off |-> 28, kind |-> "table", ty |-> "Monster", def |-> 0]

Monster_testnestedflatbuffer ==
  [name |-> "testnestedflatbuffer", off |-> 30, kind |-> "vector", ty |-> "uint8", def |-> 0]

Monster_testempty ==
  [name |-> "testempty", off |-> 32, kind |-> "table", ty |-> "Stat", def |-> 0]

\* testbool() with default true.
Monster_testbool_default_true ==
  [name |-> "testbool", off |-> 34, kind |-> "scalar", ty |-> "uint8", def |-> 1]

Monster_testbool ==
  [name |-> "testbool", off |-> 34, kind |-> "scalar", ty |-> "uint8", def |-> 0]

Monster_testarrayofbools ==
  [name |-> "testarrayofbools", off |-> 52, kind |-> "vector", ty |-> "uint8", def |-> 0]

\* The accessor of a testhash* field: GetField<ty>(off, 0).
HashAccessor(name, off, ty) ==
  [name |-> name, off |-> off, kind |-> "scalar", ty |-> ty, def |-> 0]

\* The accessors of Monster, in declaration order.
MonsterAccessors ==
  <<Monster_pos, Monster_mana, Monster_hp,
    Monster_name, Monster_inventory, Monster_color,
    Monster_test_type, Monster_test, Monster_test4,
    Monster_testarrayofstring, Monster_testarrayoftables, Monster_enemy,
    Monster_testnestedflatbuffer, Monster_testempty, Monster_testbool,
    HashAccessor("testhashs32_fnv1", 36, "int32"),
    HashAccessor("testhashu32_fnv1", 38, "uint32"),
    HashAccessor("testhashs64_fnv1", 40, "int64"),
    HashAccessor("testhashu64_fnv1", 42, "uint64"),
    HashAccessor("testhashs32_fnv1a", 44, "int32"),
    HashAccessor("testhashu32_fnv1a", 46, "uint32"),
    HashAccessor("testhashs64_fnv1a", 48, "int64"),
    HashAccessor("testhashu64_fnv1a", 50, "uint64"),
    Monster_testarrayofbools>>

MonsterBuilder_add_pos ==
  [name |-> "pos", off |-> 4, kind |-> "struct", op |-> "AddStruct",
   ty |-> "Vec3", def |-> 0]

\* add_mana passing hp's default to AddElement.
MonsterBuilder_add_mana_default_of_hp ==
  [name |-> "mana", off |-> 6, kind |-> "scalar", op |-> "AddElement",
   ty |-> "int16", def |-> 100]

MonsterBuilder_add_mana ==
  [name |-> "mana", off |-> 6, kind |-> "scalar", op |-> "AddElement",
   ty |-> "int16", def |-> 150]

MonsterBuilder_add_hp ==
  [name |-> "hp", off |-> 8, kind |-> "scalar", op |-> "AddElement",
   ty |-> "int16", def |-> 100]

MonsterBuilder_add_name ==
  [name |-> "name", off |-> 10, kind |-> "string", op |-> "AddOffset",
   ty |-> "string", def |-> 0]

\* add_inventory writing the slot of testnestedflatbuffer.
MonsterBuilder_add_inventory_slot30 ==
  [name |-> "inventory", off |-> 30, kind |-> "vector", op |-> "AddOffset",
   ty |-> "uint8", def |-> 0]

MonsterBuilder_add_inventory ==
  [name |-> "inventory", off |-> 14, kind |-> "vector", op |-> "AddOffset",
   ty |-> "uint8", def |-> 0]

MonsterBuilder_add_color ==
  [name |-> "color", off |-> 16, kind |-> "scalar", op |-> "AddElement",
   ty |-> "int8", def |-> 8]

MonsterBuilder_add_test_type ==
  [name |-> "test_type", off |-> 18, kind |-> "scalar", op |-> "AddElement",
   ty |-> "uint8", def |-> 0]

MonsterBuilder_add_test ==
  [name |-> "test", off |-> 20, kind |-> "union", op |-> "AddOffset",
   ty |-> "Any", def |-> 0]

MonsterBuilder_add_test4 ==
  [name |-> "test4", off |-> 22, kind |-> "vector", op |-> "AddOffset",
   ty |-> "Test", def |-> 0]

MonsterBuilder_add_testarrayofstring ==
  [name |-> "testarrayofstring", off |-> 24, kind |-> "vector", op |-> "AddOffset",
   ty |-> "string", def |-> 0]

MonsterBuilder_add_testarrayoftables ==
  [name |-> "testarrayoftables", off |-> 26, kind |-> "vector", op |-> "AddOffset",
   ty |-> "Monster", def |-> 0]

MonsterBuilder_add_enemy ==
  [name |-> "enemy", off |-> 28, kind |-> "table", op |-> "AddOffset",
   ty |-> "Monster", def |-> 0]

MonsterBuilder_add_testnestedflatbuffer ==
  [name |-> "testnestedflatbuffer", off |-> 30, kind |-> "vector", op |-> "AddOffset",
   ty |-> "uint8", def |-> 0]

MonsterBuilder_add_testempty ==
  [name |-> "testempty", off |-> 32, kind |-> "table", op |-> "AddOffset",
   ty |-> "Stat", def |-> 0]

MonsterBuilder_add_testbool ==
  [name |-> "testbool", off |-> 34, kind |-> "scalar", op |-> "AddElement",
   ty |-> "uint8", def |-> 0]

MonsterBuilder_add_testarrayofbools ==
  [name |-> "testarrayofbools", off |-> 52, kind |-> "vector", op |-> "AddOffset",
   ty |-> "uint8", def |-> 0]

\* The add methods of MonsterBuilder.
\* The add method of a testhash* field: AddElement<ty>(off, value, 0).
HashAdd(name, off, ty) ==
  [name |-> name, off |-> off, kind |-> "scalar", op |-> "AddElement",
   ty |-> ty, def |-> 0]

MonsterBuilderAdds ==
  <<MonsterBuilder_add_pos, MonsterBuilder_add_mana,
    MonsterBuilder_add_hp, MonsterBuilder_add_name,
    MonsterBuilder_add_inventory, MonsterBuilder_add_color,
    MonsterBuilder_add_test_type, MonsterBuilder_add_test,
    MonsterBuilder_add_test4, MonsterBuilder_add_testarrayofstring,
    MonsterBuilder_add_testarrayoftables, MonsterBuilder_add_enemy,
    MonsterBuilder_add_testnestedflatbuffer, MonsterBuilder_add_testempty,
    MonsterBuilder_add_testbool,
    HashAdd("testhashs32_fnv1", 36, "int32"),
    HashAdd("testhashu32_fnv1", 38, "uint32"),
    HashAdd("testhashs64_fnv1", 40, "int64"),
    HashAdd("testhashu64_fnv1", 42, "uint64"),
    HashAdd("testhashs32_fnv1a", 44, "int32"),
    HashAdd("testhashu32_fnv1a", 46, "uint32"),
    HashAdd("testhashs64_fnv1a", 48, "int64"),
    HashAdd("testhashu64_fnv1a", 50, "uint64"),
    MonsterBuilder_add_testarrayofbools>>


\* ------------------------------------------------------------------
\* The fixed structs of the generated code.  A member is a C++ data member
\* (padding members included); the structs are packed, so a member's byte
\* offset is the sum of the sizes of the members before it.
\* ------------------------------------------------------------------

Test_members ==
  <<[name |-> "a", size |-> 2, align |-> 2, pad |-> FALSE],
    [name |-> "b", size |-> 1, align |-> 1, pad |-> FALSE],
    [name |-> "__padding0", size |-> 1, align |-> 1, pad |-> TRUE]>>

\* MANUALLY_ALIGNED_STRUCT(2) Test ... STRUCT_END(Test, 4)
Test_struct == [name |-> "Test", members |-> Test_members, align |-> 2, size |-> 4]

\* Vec3 without the padding member before test1.
Vec3_members_without_padding0 ==
  <<[name |-> "x", size |-> 4, align |-> 4, pad |-> FALSE],
    [name |-> "y", size |-> 4, align |-> 4, pad |-> FALSE],
    [name |-> "z", size |-> 4, align |-> 4, pad |-> FALSE],
    [name |-> "test1", size |-> 8, align |-> 8, pad |-> FALSE],
    [name |-> "test2", size |-> 1, align |-> 1, pad |-> FALSE],
    [name |-> "__padding1", size |-> 1, align |-> 1, pad |-> TRUE],
    [name |-> "test3", size |-> 4, align |-> 2, pad |-> FALSE],
    [name |-> "__padding2", size |-> 2, align |-> 2, pad |-> TRUE]>>

Vec3_members ==
  <<[name |-> "x", size |-> 4, align |-> 4, pad |-> FALSE],
    [name |-> "y", size |-> 4, align |-> 4, pad |-> FALSE],
    [name |-> "z", size |-> 4, align |-> 4, pad |-> FALSE],
    [name |-> "__padding0", size |-> 4, align |-> 4, pad |-> TRUE],
    [name |-> "test1", size |-> 8, align |-> 8, pad |-> FALSE],
    [name |-> "test2", size |-> 1, align |-> 1, pad |-> FALSE],
    [name |-> "__padding1", size |-> 1, align |-> 1, pad |-> TRUE],
    [name |-> "test3", size |-> 4, align |-> 2, pad |-> FALSE],
    [name |-> "__padding2", size |-> 2, align |-> 2, pad |-> TRUE]>>

\* MANUALLY_ALIGNED_STRUCT(16) Vec3 ... STRUCT_END(Vec3, 32)
Vec3_struct == [name |-> "Vec3", members |-> Vec3_members, align |-> 16, size |-> 32]

RECURSIVE SumSizes(_, _)
SumSizes(members, k) ==
  IF k = 0 THEN 0 ELSE members[k].size + SumSizes(members, k - 1)

\* The byte offset of the member called name.
MemberOffset(members, name) ==
  SumSizes(members, (CHOOSE k \in 1..Len(members) : members[k].name = name) - 1)

\* Test(int16_t a, int8_t b)
Test(a, b) == EndianScalar(a, 2) \o EndianScalar(b, 1) \o EndianScalar(0, 1)

Test_a(B, p) == ReadS(B, p + MemberOffset(Test_members, "a"), 2)

Test_b(B, p) == ReadS(B, p + MemberOffset(Test_members, "b"), 1)

\* Vec3(float x, float y, float z, double test1, Color test2, const Test &test3);
\* a float or double is carried as its raw bits.
Vec3(x, y, z, test1, test2, test3) ==
  EndianScalar(x, 4) \o EndianScalar(y, 4) \o EndianScalar(z, 4)
  \o EndianScalar(0, 4) \o EndianScalar(test1, 8) \o EndianScalar(test2, 1)
  \o EndianScalar(0, 1) \o test3 \o EndianScalar(0, 2)

Vec3_x(B, p) == ReadU(B, p + MemberOffset(Vec3_members, "x"), 4)

Vec3_y(B, p) == ReadU(B, p + MemberOffset(Vec3_members, "y"), 4)

Vec3_z(B, p) == ReadU(B, p + MemberOffset(Vec3_members, "z"), 4)

Vec3_test1(B, p) == ReadU(B, p + MemberOffset(Vec3_members, "test1"), 8)

Vec3_test2(B, p) == ReadS(B, p + MemberOffset(Vec3_members, "test2"), 1)

Vec3_test3(B, p) == p + MemberOffset(Vec3_members, "test3")

\* Size and alignment of what a field or a vector element holds inline.
InlineSize(ty) ==
  CASE ty = "Vec3" -> Vec3_struct.size
    [] ty = "Test" -> Test_struct.size
    [] ty \in {"string", "Monster", "Stat", "TestSimpleTableWithEnum", "Any"} -> 4
    [] OTHER -> SizeOf(ty)

InlineAlignment(ty) ==
  CASE ty = "Vec3" -> Vec3_struct.align
    [] ty = "Test" -> Test_struct.align
    [] OTHER -> InlineSize(ty)

\* ------------------------------------------------------------------
\* The generated Verify methods: the chain of checks, in order.
\* ------------------------------------------------------------------

VStep(op, off, ty) == [op |-> op, off |-> off, ty |-> ty]

TestSimpleTableWithEnum_Verify ==
  <<VStep("VerifyTableStart", 0, "none"),
    VStep("VerifyField", 4, "int8"),
    VStep("EndTable", 0, "none")>>

\* Stat::Verify without verifier.Verify(id()).
Stat_Verify_without_id_check ==
  <<VStep("VerifyTableStart", 0, "none"),
    VStep("VerifyField", 4, "uoffset"),
    VStep("VerifyField", 6, "int64"),
    VStep("VerifyField", 8, "uint16"),
    VStep("EndTable", 0, "none")>>

\* Stat::Verify treating id as required.
Stat_Verify_id_required ==
  <<VStep("VerifyTableStart", 0, "none"),
    VStep("VerifyFieldRequired", 4, "uoffset"),
    VStep("VerifyString", 4, "string"),
    VStep("VerifyField", 6, "int64"),
    VStep("VerifyField", 8, "uint16"),
    VStep("EndTable", 0, "none")>>

\* Stat::Verify with verifier.Verify(id()) ahead of the check of id's slot.
Stat_Verify_id_before_its_slot ==
  <<VStep("VerifyTableStart", 0, "none"),
    VStep("VerifyString", 4, "string"),
    VStep("VerifyField", 4, "uoffset"),
    VStep("VerifyField", 6, "int64"),
    VStep("VerifyField", 8, "uint16"),
    VStep("EndTable", 0, "none")>>

Stat_Verify ==
  <<VStep("VerifyTableStart", 0, "none"),
    VStep("VerifyField", 4, "uoffset"),
    VStep("VerifyString", 4, "string"),
    VStep("VerifyField", 6, "int64"),
    VStep("VerifyField", 8, "uint16"),
    VStep("EndTable", 0, "none")>>

Monster_Verify ==
  <<VStep("VerifyTableStart", 0, "none"),
    VStep("VerifyField", 4, "Vec3"),
    VStep("VerifyField", 6, "int16"),
    VStep("VerifyField", 8, "int16"),
    VStep("VerifyFieldRequired", 10, "uoffset"),
    VStep("VerifyString", 10, "string"),
    VStep("VerifyField", 14, "uoffset"),
    VStep("VerifyVector", 14, "uint8"),
    VStep("VerifyField", 16, "int8"),
    VStep("VerifyField", 18, "uint8"),
    VStep("VerifyField", 20, "uoffset"),
    VStep("VerifyAny", 20, "Any"),
    VStep("VerifyField", 22, "uoffset"),
    VStep("VerifyVector", 22, "Test"),
    VStep("VerifyField", 24, "uoffset"),
    VStep("VerifyVector", 24, "string"),
    VStep("VerifyVectorOfStrings", 24, "string"),
    VStep("VerifyField", 26, "uoffset"),
    VStep("VerifyVector", 26, "Monster"),
    VStep("VerifyVectorOfTables", 26, "Monster"),
    VStep("VerifyField", 28, "uoffset"),
    VStep("VerifyTable", 28, "Monster"),
    VStep("VerifyField", 30, "uoffset"),
    VStep("VerifyVector", 30, "uint8"),
    VStep("VerifyField", 32, "uoffset"),
    VStep("VerifyTable", 32, "Stat"),
    VStep("VerifyField", 34, "uint8"),
    VStep("VerifyField", 36, "int32"),
    VStep("VerifyField", 38, "uint32"),
    VStep("VerifyField", 40, "int64"),
    VStep("VerifyField", 42, "uint64"),
    VStep("VerifyField", 44, "int32"),
    VStep("VerifyField", 46, "uint32"),
    VStep("VerifyField", 48, "int64"),
    VStep("VerifyField", 50, "uint64"),
    VStep("VerifyField", 52, "uoffset"),
    VStep("VerifyVector", 52, "uint8"),
    VStep("EndTable", 0, "none")>>

\* Monster::test_type() as read by Verify for VerifyAny.
Monster_test_type_off == Monster_test_type.off

\* enum Any
Any_NONE == 0

Any_Monster == 1

Any_TestSimpleTableWithEnum == 2

\* The Verify chain of a table type.
VerifyChain(type) ==
  CASE type = "Monster" -> Monster_Verify
    [] type = "Stat" -> Stat_Verify
    [] type = "TestSimpleTableWithEnum" -> TestSimpleTableWithEnum_Verify


\* ------------------------------------------------------------------
\* Verifier (flatbuffers.h).  B is the buffer handed to the verifier, depth
\* the number of tables being verified around the current one.
\* ------------------------------------------------------------------

\* The depth limit the verifier is configured with.
max_depth == 3

\* Verify(elem, elem_len): the range lies within the buffer.
Verifier_Verify(B, pos, len) == len <= Len(B) /\ pos >= 0 /\ pos <= Len(B) - len

\* Verify<T>(elem): in bounds and aligned.
VerifyScalar(B, pos, size, alignment) ==
  pos >= 0 /\ pos % alignment = 0 /\ Verifier_Verify(B, pos, size)

\* Verify(const Vector<T> *) and Verify(const String *): the length prefix,
\* then length * element size, without overflow.
VerifyVector(B, p, elemsize, alignment) ==
  /\ VerifyScalar(B, p, 4, 4)
  /\ VectorSize(B, p) <= (Len(B) - (p + 4)) \div elemsize
  /\ (p + 4) % Min(alignment, 4) = 0
  /\ Verifier_Verify(B, p + 4, VectorSize(B, p) * elemsize)

\* VerifyTableStart without the depth check.
VerifyTableStart_without_depth_check(B, t, depth) ==
  /\ VerifyScalar(B, t, 4, 4)
  /\ VerifyScalar(B, GetVTable(B, t), 2, 2)
  /\ Verifier_Verify(B, GetVTable(B, t), ReadU(B, GetVTable(B, t), 2))

\* Table::VerifyTableStart: the vtable offset, the depth, the vtable.
VerifyTableStart(B, t, depth) ==
  /\ VerifyScalar(B, t, 4, 4)
  /\ depth + 1 <= max_depth
  /\ VerifyScalar(B, GetVTable(B, t), 2, 2)
  /\ Verifier_Verify(B, GetVTable(B, t), ReadU(B, GetVTable(B, t), 2))

\* Table::VerifyField<T>: an absent field is fine.
VerifyField(B, t, field, ty) ==
  LET field_offset == GetOptionalFieldOffset(B, t, field)
  IN field_offset = 0
     \/ VerifyScalar(B, t + field_offset, InlineSize(ty), InlineAlignment(ty))

\* Table::VerifyFieldRequired<T>: the field must be present.
VerifyFieldRequired(B, t, field, ty) ==
  LET field_offset == GetOptionalFieldOffset(B, t, field)
  IN field_offset # 0
     /\ VerifyScalar(B, t + field_offset, InlineSize(ty), InlineAlignment(ty))

\* Vector<Offset<T>>::Get(i): the object element i refers to.
VectorGetIndirect(B, p, i) ==
  LET e == VectorData(B, p) + 4 * i IN e + ReadU(B, e, 4)

RECURSIVE VerifyTable(_, _, _, _)
RECURSIVE VerifySteps(_, _, _, _, _)

\* verifier.VerifyTable(ptr): a null pointer is fine.
VerifyTablePtr(B, p, type, depth) ==
  p = nullptr \/ VerifyTable(B, p, type, depth)

\* VerifyAny(verifier, union_obj, type)
VerifyAny(B, union_obj, type, depth) ==
  CASE type = Any_NONE -> TRUE
    [] type = Any_Monster -> VerifyTablePtr(B, union_obj, "Monster", depth)
    [] type = Any_TestSimpleTableWithEnum ->
         VerifyTablePtr(B, union_obj, "TestSimpleTableWithEnum", depth)
    [] OTHER -> FALSE

\* One check of a Verify chain on the table at t.
VerifyStep(B, t, st, depth) ==
  CASE st.op = "VerifyTableStart" -> VerifyTableStart(B, t, depth)
    [] st.op = "VerifyField" -> VerifyField(B, t, st.off, st.ty)
    [] st.op = "VerifyFieldRequired" -> VerifyFieldRequired(B, t, st.off, st.ty)
    [] st.op = "VerifyString" ->
         LET p == GetPointer(B, t, st.off)
         IN p = nullptr \/ VerifyVector(B, p, 1, 1)
    [] st.op = "VerifyVector" ->
         LET p == GetPointer(B, t, st.off)
         IN p = nullptr \/ VerifyVector(B, p, InlineSize(st.ty), InlineAlignment(st.ty))
    [] st.op = "VerifyVectorOfStrings" ->
         LET p == GetPointer(B, t, st.off)
         IN p = nullptr
            \/ \A i \in 0..(VectorSize(B, p) - 1) :
                 VerifyVector(B, VectorGetIndirect(B, p, i), 1, 1)
    [] st.op = "VerifyVectorOfTables" ->
         LET p == GetPointer(B, t, st.off)
         IN p = nullptr
            \/ \A i \in 0..(VectorSize(B, p) - 1) :
                 VerifyTable(B, VectorGetIndirect(B, p, i), st.ty, depth + 1)
    [] st.op = "VerifyTable" ->
         VerifyTablePtr(B, GetPointer(B, t, st.off), st.ty, depth + 1)
    [] st.op = "VerifyAny" ->
         VerifyAny(B, GetPointer(B, t, st.off),
                   GetField(B, t, Monster_test_type_off, "uint8", 0), depth + 1)
    [] st.op = "EndTable" -> TRUE

\* The checks from the i-th on, stopping at the first that fails.
VerifySteps(B, t, chain, i, depth) ==
  IF i > Len(chain) THEN TRUE
  ELSE VerifyStep(B, t, chain[i], depth) /\ VerifySteps(B, t, chain, i + 1, depth)

\* T::Verify(verifier) on the table at t.
VerifyTable(B, t, type, depth) == VerifySteps(B, t, VerifyChain(type), 1, depth)

\* verifier.VerifyBuffer<T>()
VerifyBuffer(B, type) ==
  VerifyScalar(B, 0, 4, 4) /\ VerifyTable(B, GetRoot(B), type, 0)

\* VerifyMonsterBuffer(verifier)
VerifyMonsterBuffer(B) == VerifyBuffer(B, "Monster")


\* ------------------------------------------------------------------
\* The generated builders and buffer functions.
\* ------------------------------------------------------------------

\* TestSimpleTableWithEnumBuilder::Finish
TestSimpleTableWithEnumBuilder_Finish(b, start_) == EndTable(b, start_, 1)

\* StatBuilder::Finish
StatBuilder_Finish(b, start_) == EndTable(b, start_, 3)

\* The field count MonsterBuilder::Finish passes to EndTable.
Monster_numfields == 25

\* MonsterBuilder::Finish without the Required call.
MonsterBuilder_Finish_without_Required(b, start_) ==
  EndTable(b, start_, Monster_numfields)

\* MonsterBuilder::Finish checking the required name on the spot.
MonsterBuilder_Finish_checks_at_once(b, start_) ==
  LET e == Required(EndTable(b, start_, Monster_numfields), EndTableOffset(b), 10)
  IN [e EXCEPT !.failed = ~RequiredPresent(e)]

\* MonsterBuilder::Finish ending the table as one of 26 fields.
MonsterBuilder_Finish_declaring_26_fields(b, start_) ==
  Required(EndTable(b, start_, Monster_numfields + 1), EndTableOffset(b), 10)

\* MonsterBuilder::Finish: ends the table and registers the required name.
MonsterBuilder_Finish(b, start_) ==
  Required(EndTable(b, start_, Monster_numfields), EndTableOffset(b), 10)

BuilderFinish(type, b, start_) ==
  CASE type = "Monster" -> MonsterBuilder_Finish(b, start_)
    [] type = "Stat" -> StatBuilder_Finish(b, start_)
    [] type = "TestSimpleTableWithEnum" -> TestSimpleTableWithEnumBuilder_Finish(b, start_)

BuilderAdds(type) ==
  CASE type = "Monster" -> MonsterBuilderAdds
    [] type = "Stat" -> StatBuilderAdds
    [] type = "TestSimpleTableWithEnum" -> TestSimpleTableWithEnumBuilderAdds

Accessors(type) ==
  CASE type = "Monster" -> MonsterAccessors
    [] type = "Stat" -> StatAccessors
    [] type = "TestSimpleTableWithEnum" -> TestSimpleTableWithEnumAccessors

\* The call an add method makes on the builder; arg is the scalar, the
\* builder offset of the object, or the struct's bytes.
BuilderAdd(b, m, arg) ==
  CASE m.op = "AddElement" -> AddElement(b, m.off, arg, m.def, SizeOf(m.ty))
    [] m.op = "AddOffset" -> AddOffset(b, m.off, arg)
    [] m.op = "AddStruct" -> AddStruct(b, m.off, arg, InlineAlignment(m.ty))

\* The call an accessor makes on the table at t: a scalar, or the position
\* of the struct or of the object referred to, nullptr when absent.
Accessor(B, t, a) ==
  CASE a.kind = "scalar" -> GetField(B, t, a.off, a.ty, a.def)
    [] a.kind = "struct" -> GetStruct(B, t, a.off)
    [] OTHER -> GetPointer(B, t, a.off)

\* CreateTestSimpleTableWithEnum(fbb, color): the builder after the add
\* calls, and after Finish.
CreateTestSimpleTableWithEnum_adds(b, color) ==
  BuilderAdd(StartTable_nested(b), TestSimpleTableWithEnumBuilder_add_color, color)

CreateTestSimpleTableWithEnum(b, color) ==
  TestSimpleTableWithEnumBuilder_Finish(
    CreateTestSimpleTableWithEnum_adds(b, color), StartTable(b))

\* CreateStat(fbb, id, val, count): val, id, count are added in this order.
CreateStat_adds(b, id, val, count) ==
  BuilderAdd(BuilderAdd(BuilderAdd(StartTable_nested(b), StatBuilder_add_val, val),
                        StatBuilder_add_id, id),
             StatBuilder_add_count, count)

CreateStat(b, id, val, count) ==
  StatBuilder_Finish(CreateStat_adds(b, id, val, count), StartTable(b))

\* MonsterIdentifier(): "MONS"
MonsterIdentifier == <<77, 79, 78, 83>>

\* GetMonster(buf)
GetMonster(B) == GetRoot(B)

\* MonsterBufferHasIdentifier(buf)
MonsterBufferHasIdentifier(B) == BufferHasIdentifier(B, MonsterIdentifier)

\* FinishMonsterBuffer finishing without the identifier.
FinishMonsterBuffer_without_identifier(b, root) == Finish(b, root, <<>>)

\* FinishMonsterBuffer(fbb, root)
FinishMonsterBuffer(b, root) == Finish(b, root, MonsterIdentifier)


\* ------------------------------------------------------------------
\* The state: one builder, the table builder in use, and a reader.
\* ------------------------------------------------------------------

VARIABLES
  focus,     \* the optional Monster field this producer sets (besides name)
  fbb,       \* the FlatBufferBuilder
  phase,     \* "building", "table" (between StartTable and EndTable),
             \* "finished" (Finish returned the buffer), "failed"
  builder_,  \* the generated table builder in use: type, start_, and the
             \* values its add methods were called with
  objs,      \* the objects created so far: kind, type, builder offset, value
  root,      \* the index in objs of the table passed to Finish, 0 before
  view,      \* the bytes handed to the verifier
  tamper,    \* how view differs from the finished buffer
  verdict,   \* what the verifier returned: "none", "ok", "rejected"
  got,       \* the last accessor call: table, accessor, result
  misuse,    \* the call the producer made against the builder's rules,
             \* "none" for a producer that follows them
  decl,      \* the struct or table declaration being compiled
  struct_def,\* the StructDef the parser builds for it
  pc,        \* where the compiler is: "parse", "accessors", "adds", "done"
  it,        \* the field the current loop is at (1-based)
  code,      \* what the Java generator has emitted, one record per method
  parser,    \* the Parser handed to GenerateJava: enums_, structs_, the
             \* namespace, the root type and the file identifier
  files,     \* the files SaveFile has written, in order
  calls,     \* the calls of SaveClass made so far, each with its result
  result,    \* what GenerateJava returned: "none" while it runs
  stack,     \* the verifier at work: the tables being verified, outermost
             \* first, each with the check of its Verify it is at
  log,       \* the checks the verifier has evaluated, in order
  input      \* how the buffer handed to the verifier was built

mainvars == <<focus, fbb, phase, builder_, objs, root, view, tamper, verdict, got, misuse>>

mainvars_but_verdict == <<focus, fbb, phase, builder_, objs, root, view, tamper, got, misuse>>

javavars == <<parser, files, calls, result>>

schemavars == <<decl, struct_def, pc, it, code, javavars>>

verifyvars == <<stack, log, input>>

vars == <<mainvars, schemavars, verifyvars>>

\* Bounds of the exploration: objects per buffer, elements per vector.
MaxObjs == 3

MaxVecLen == 2

\* Input values.
StringPool == {<<79, 114>>, <<79, 114, 99>>}

ByteVecs == {SubSeq(<<1, 2, 3, 4, 5, 6, 7, 8>>, 1, n) : n \in 0..MaxVecLen}

TestPool == {[a |-> 0 - 5, b |-> 6]}

Vec3Pool ==
  {[x |-> 1, y |-> 2, z |-> 3, test1 |-> 4, test2 |-> 2, test3 |-> [a |-> 0 - 5, b |-> 6]]}

\* Sequences over S of length 1..n.
RECURSIVE SeqsUpTo(_, _)
SeqsUpTo(S, n) ==
  IF n = 0 THEN {}
  ELSE {<<x>> : x \in S}
       \cup {Append(q, x) : q \in SeqsUpTo(S, n - 1), x \in S}

\* The optional Monster fields a producer may set.
FocusNames ==
  {MonsterBuilderAdds[k].name : k \in 1..Len(MonsterBuilderAdds)} \ {"name", "test_type"}

FocusAdd == CHOOSE m \in {MonsterBuilderAdds[k] : k \in 1..Len(MonsterBuilderAdds)} :
              m.name = focus

\* The add methods this producer calls on a MonsterBuilder.
UsedAdds ==
  {"name", focus} \cup (IF focus = "test" THEN {"test_type"} ELSE {})

\* The values an add method is called with: the defaults the schema
\* declares for fields of the type, and another value.
ScalarValues(m) ==
  CASE m.name = "test_type" -> {Any_NONE, Any_Monster, Any_TestSimpleTableWithEnum}
    [] m.ty = "int16" -> {150, 100, 80}
    [] m.ty = "int8" -> {8, 2, 1}
    [] m.ty \in {"int32", "int64"} -> {0, 0 - 2}
    [] OTHER -> {0, 7}

ObjsOf(kind, ty) ==
  {i \in 1..Len(objs) : objs[i].kind = kind /\ objs[i].ty = ty}

Candidates(m) ==
  CASE m.kind = "scalar" -> ScalarValues(m)
    [] m.kind = "struct" -> Vec3Pool
    [] m.kind = "string" -> ObjsOf("string", "string")
    [] m.kind = "union" ->
         ObjsOf("table", "Monster") \cup ObjsOf("table", "TestSimpleTableWithEnum")
    [] OTHER -> ObjsOf(m.kind, m.ty)

\* The argument the caller passes for value v.
AddArg(m, v) ==
  CASE m.kind = "scalar" -> v
    [] m.kind = "struct" ->
         Vec3(v.x, v.y, v.z, v.test1, v.test2, Test(v.test3.a, v.test3.b))
    [] OTHER -> objs[v].off

NoDecl == [name |-> "none", fixed |-> FALSE, force_align |-> 0, fields |-> <<>>]

NoStructDef ==
  [name |-> "none", fixed |-> FALSE, fields |-> <<>>, minalign |-> 1, bytesize |-> 0,
   generated |-> FALSE]

NoParser ==
  [enums_ |-> <<>>, structs_ |-> <<>>, namespaces_ |-> <<>>,
   root_struct_def |-> "none", file_identifier_ |-> ""]

\* GenerateJava is not running.
JavaIdle ==
  /\ parser = NoParser
  /\ files = <<>>
  /\ calls = <<>>
  /\ result = "none"

\* The verifier is not being followed check by check.
NoInput == [depth |-> 0, link |-> "none", tag |-> 0, child |-> "none"]

VerifierIdle == stack = <<>> /\ log = <<>> /\ input = NoInput

\* No schema is being compiled.
SchemaIdle ==
  /\ decl = NoDecl
  /\ struct_def = NoStructDef
  /\ pc = "idle"
  /\ it = 0
  /\ code = <<>>
  /\ JavaIdle

NoBuilder == [type |-> "none", start_ |-> 0, vals |-> <<>>, wrote |-> <<>>]

NoGot == [obj |-> 0, name |-> "none", raw |-> 0, val |-> 0]

\* An object of the buffer as the producer knows it: its builder offset, the
\* value it was created from (for a table, the value passed to each add
\* method) and, for a table, the bytes each add call made the buffer grow by
\* and the vtable its recorded fields make up.
Obj(kind, ty, off, val, wrote, vtable) ==
  [kind |-> kind, ty |-> ty, off |-> off, val |-> val, wrote |-> wrote,
   vtable |-> vtable]

Init ==
  /\ focus \in FocusNames
  /\ fbb = NewBuilder
  /\ phase = "building"
  /\ builder_ = NoBuilder
  /\ objs = <<>>
  /\ root = 0
  /\ view = <<>>
  /\ tamper = [kind |-> "none", at |-> 0, field |-> "none", val |-> 0]
  /\ verdict = "none"
  /\ got = NoGot
  /\ misuse = "none"
  /\ SchemaIdle
  /\ VerifierIdle

Created(b, kind, ty, val) ==
  /\ fbb' = b
  /\ objs' = Append(objs, Obj(kind, ty, GetSize(b), val, <<>>, <<>>))
  /\ UNCHANGED <<schemavars, verifyvars, misuse, focus, phase, builder_, root, view, tamper, verdict, got>>

\* fbb.CreateString(str)
DoCreateString ==
  /\ phase = "building"
  /\ Len(objs) < MaxObjs
  /\ \E str \in StringPool : Created(CreateString(fbb, str), "string", "string", str)

\* fbb.CreateVector(bytes)
DoCreateVector ==
  /\ phase = "building"
  /\ Len(objs) < MaxObjs
  /\ FocusAdd.kind = "vector" /\ FocusAdd.ty = "uint8"
  /\ \E v \in ByteVecs : Created(CreateVector(fbb, v, 1), "vector", "uint8", v)

\* fbb.CreateVectorOfStructs(tests)
DoCreateVectorOfStructs ==
  /\ phase = "building"
  /\ Len(objs) < MaxObjs
  /\ FocusAdd.kind = "vector" /\ FocusAdd.ty = "Test"
  /\ \E v \in SeqsUpTo(TestPool, MaxVecLen) :
       Created(CreateVectorOfStructs(fbb, [i \in 1..Len(v) |-> Test(v[i].a, v[i].b)],
                                     Test_struct.size, Test_struct.align),
               "vector", "Test", v)

\* fbb.CreateVector(offsets) of strings or of Monster tables
DoCreateVectorOfOffsets ==
  /\ phase = "building"
  /\ Len(objs) < MaxObjs
  /\ FocusAdd.kind = "vector" /\ FocusAdd.ty \in {"string", "Monster"}
  /\ \E v \in SeqsUpTo(ObjsOf(IF FocusAdd.ty = "string" THEN "string" ELSE "table",
                              FocusAdd.ty),
                       MaxVecLen) :
       Created(CreateVectorOfOffsets(fbb, [i \in 1..Len(v) |-> objs[v[i]].off]),
               "vector", FocusAdd.ty, v)

\* The offset argument for object i, 0 for the null offset.
OffsetOf(i) == IF i = 0 THEN 0 ELSE objs[i].off

\* CreateTestSimpleTableWithEnum(fbb, color)
DoCreateTestSimpleTableWithEnum ==
  /\ phase = "building"
  /\ Len(objs) < MaxObjs
  /\ focus = "test"
  /\ \E color \in ScalarValues(TestSimpleTableWithEnumBuilder_add_color) :
       /\ fbb' = CreateTestSimpleTableWithEnum(fbb, color)
       /\ objs' = Append(objs, Obj("table", "TestSimpleTableWithEnum",
                                   EndTableOffset(CreateTestSimpleTableWithEnum_adds(fbb, color)),
                                   [color |-> color],
                                   [color |-> GetSize(CreateTestSimpleTableWithEnum_adds(fbb, color))
                                                - GetSize(fbb)],
                                   TableVTable(CreateTestSimpleTableWithEnum_adds(fbb, color),
                                               StartTable(fbb))))
       /\ UNCHANGED <<schemavars, verifyvars, misuse, focus, phase, builder_, root, view, tamper, verdict, got>>

\* CreateStat(fbb, id, val, count)
DoCreateStat ==
  /\ phase = "building"
  /\ Len(objs) < MaxObjs
  /\ focus = "testempty"
  /\ \E id \in {0} \cup ObjsOf("string", "string"),
        val \in ScalarValues(StatBuilder_add_val),
        count \in ScalarValues(StatBuilder_add_count) :
       LET b1 == BuilderAdd(StartTable_nested(fbb), StatBuilder_add_val, val)
           b2 == BuilderAdd(b1, StatBuilder_add_id, OffsetOf(id))
           b == CreateStat_adds(fbb, OffsetOf(id), val, count)
       IN /\ fbb' = StatBuilder_Finish(b, StartTable(fbb))
          /\ objs' = Append(objs, Obj("table", "Stat", EndTableOffset(b),
                                      [id |-> id, val |-> val, count |-> count],
                                      [id |-> GetSize(b2) - GetSize(b1),
                                       val |-> GetSize(b1) - GetSize(fbb),
                                       count |-> GetSize(b) - GetSize(b2)],
                                      TableVTable(b, StartTable(fbb))))
          /\ UNCHANGED <<schemavars, verifyvars, misuse, focus, phase, builder_, root, view, tamper, verdict, got>>

\* MonsterBuilder builder_(fbb): the constructor calls StartTable.
DoStartTable ==
  /\ phase = "building"
  /\ Len(objs) < MaxObjs
  /\ builder_' = [type |-> "Monster", start_ |-> StartTable(fbb), vals |-> <<>>,
                   wrote |-> <<>>]
  /\ fbb' = StartTable_nested(fbb)
  /\ phase' = "table"
  /\ UNCHANGED <<schemavars, verifyvars, misuse, focus, objs, root, view, tamper, verdict, got>>

\* builder_.add_<field>(value)
DoAdd ==
  /\ phase = "table"
  /\ \E k \in 1..Len(BuilderAdds(builder_.type)) :
       LET m == BuilderAdds(builder_.type)[k]
       IN /\ m.name \in UsedAdds
          /\ m.name \notin DOMAIN builder_.vals
          /\ \E v \in Candidates(m) :
               /\ fbb' = BuilderAdd(fbb, m, AddArg(m, v))
               /\ builder_' = [builder_ EXCEPT
                                 !.vals = @ @@ (m.name :> v),
                                 !.wrote = @ @@ (m.name :> (GetSize(fbb') - GetSize(fbb)))]
  /\ UNCHANGED <<schemavars, verifyvars, misuse, focus, phase, objs, root, view, tamper, verdict, got>>

\* builder_.Finish()
DoFinishTable ==
  /\ phase = "table"
  /\ fbb' = BuilderFinish(builder_.type, fbb, builder_.start_)
  /\ objs' = Append(objs, Obj("table", builder_.type, EndTableOffset(fbb),
                              builder_.vals, builder_.wrote,
                              TableVTable(fbb, builder_.start_)))
  /\ builder_' = NoBuilder
  /\ phase' = IF fbb'.failed THEN "failed" ELSE "building"
  /\ UNCHANGED <<schemavars, verifyvars, misuse, focus, root, view, tamper, verdict, got>>

\* The position in the buffer of object i (the buffer grows at the front).
Pos(i) == Len(fbb.buf) - objs[i].off

AccessorNamed(type, name) ==
  CHOOSE a \in {Accessors(type)[k] : k \in 1..Len(Accessors(type))} : a.name = name

\* The type tag a Monster's union field was built with.
TagOf(i) ==
  IF "test_type" \in DOMAIN objs[i].val THEN objs[i].val["test_type"] ELSE Any_NONE

AnyTypeName(tag) ==
  CASE tag = Any_Monster -> "Monster"
    [] tag = Any_TestSimpleTableWithEnum -> "TestSimpleTableWithEnum"
    [] OTHER -> "none"

\* The objects object i refers to: a table's string, vector and table
\* fields and its union field when the tag names the type of the table
\* referred to; the elements of a vector of offsets.
Children(i) ==
  CASE objs[i].kind = "table" ->
         {objs[i].val[n] : n \in {n \in DOMAIN objs[i].val :
            LET a == AccessorNamed(objs[i].ty, n)
            IN /\ a.kind \in {"string", "vector", "table", "union"}
               /\ objs[i].val[n] # 0
               /\ a.kind = "union" =>
                    objs[objs[i].val[n]].ty = AnyTypeName(TagOf(i))}}
    [] objs[i].kind = "vector" /\ objs[i].ty \in {"string", "Monster"} ->
         {objs[i].val[k] : k \in 1..Len(objs[i].val)}
    [] OTHER -> {}

\* The objects reachable from object i; an object only refers to objects
\* created before it.
RECURSIVE Reach(_)
Reach(i) == {i} \cup UNION {Reach(c) : c \in Children(i)}

\* The objects object i holds an offset to.
Refs(i) ==
  CASE objs[i].kind = "table" ->
         {objs[i].val[n] : n \in {n \in DOMAIN objs[i].val :
            /\ AccessorNamed(objs[i].ty, n).kind \in {"string", "vector", "table", "union"}
            /\ objs[i].val[n] # 0}}
    [] objs[i].kind = "vector" /\ objs[i].ty \in {"string", "Monster"} ->
         {objs[i].val[k] : k \in 1..Len(objs[i].val)}
    [] OTHER -> {}

RECURSIVE Referenced(_)
Referenced(i) == {i} \cup UNION {Referenced(c) : c \in Refs(i)}

\* FinishMonsterBuffer(fbb, root): a missing required field fails here and
\* leaves no buffer.  The producer finishes once the root holds, directly or
\* not, every object it created.
DoFinishBuffer ==
  /\ phase = "building"
  /\ \E r \in ObjsOf("table", "Monster") :
       /\ Referenced(r) = 1..Len(objs)
       /\ root' = r
       /\ fbb' = FinishMonsterBuffer(fbb, objs[r].off)
       /\ phase' = IF fbb'.failed THEN "failed" ELSE "finished"
  /\ UNCHANGED <<schemavars, verifyvars, misuse, focus, builder_, objs, view, tamper, verdict, got>>

\* ------------------------------------------------------------------
\* A producer that breaks the builder's rules once: it adds a field through
\* a table builder whose Finish already returned, calls Finish twice on the
\* same table builder, or adds a field of its own at the first slot the
\* Monster table does not declare.
\* ------------------------------------------------------------------

\* builder_.add_<field>(value) after builder_.Finish(), for the builder of
\* any table created so far.
DoAddAfterEndTable ==
  /\ phase = "building"
  /\ misuse = "none"
  /\ \E i \in 1..Len(objs) :
       /\ objs[i].kind = "table"
       /\ \E k \in 1..Len(BuilderAdds(objs[i].ty)) :
            LET m == BuilderAdds(objs[i].ty)[k]
            IN /\ m.kind = "scalar"
               /\ \E v \in ScalarValues(m) : fbb' = BuilderAdd(fbb, m, v)
  /\ misuse' = "add after EndTable"
  /\ phase' = IF fbb'.failed THEN "failed" ELSE phase
  /\ UNCHANGED <<schemavars, verifyvars, focus, builder_, objs, root, view, tamper, verdict, got>>

\* builder_.Finish(); builder_.Finish();
DoFinishTableTwice ==
  /\ phase = "table"
  /\ misuse = "none"
  /\ fbb' = BuilderFinish(builder_.type,
                          BuilderFinish(builder_.type, fbb, builder_.start_),
                          builder_.start_)
  /\ objs' = Append(objs, Obj("table", builder_.type, EndTableOffset(fbb),
                              builder_.vals, builder_.wrote,
                              TableVTable(fbb, builder_.start_)))
  /\ builder_' = NoBuilder
  /\ misuse' = "EndTable twice"
  /\ phase' = IF fbb'.failed THEN "failed" ELSE "building"
  /\ UNCHANGED <<schemavars, verifyvars, focus, root, view, tamper, verdict, got>>

\* fbb.AddElement<uint8_t>(slot, 1, 0) between the constructor and Finish of
\* a MonsterBuilder, slot being the first one past the 25 Monster declares.
DoAddUndeclared ==
  /\ phase = "table"
  /\ misuse = "none"
  /\ builder_.type = "Monster"
  /\ fbb' = AddElement(fbb, FieldIndexToOffset(Monster_numfields), 1, 0, 1)
  /\ misuse' = "undeclared slot"
  /\ UNCHANGED <<schemavars, verifyvars, focus, phase, builder_, objs, root, view, tamper, verdict, got>>

UsageNext ==
  \/ DoCreateString
  \/ DoCreateVector
  \/ DoCreateVectorOfStructs
  \/ DoCreateVectorOfOffsets
  \/ DoCreateTestSimpleTableWithEnum
  \/ DoCreateStat
  \/ DoStartTable
  \/ DoAdd
  \/ DoFinishTable
  \/ DoFinishBuffer
  \/ DoAddAfterEndTable
  \/ DoFinishTableTwice
  \/ DoAddUndeclared

SpecUsage == Init /\ [][UsageNext]_vars

\* ------------------------------------------------------------------
\* The reader: the finished buffer is read through the accessors, or handed
\* to the verifier intact, truncated, or with one offset field changed.
\* ------------------------------------------------------------------

\* What the caller reads through the result r of accessor a: the scalar, the
\* members of the struct, the bytes of the string, the elements of the
\* vector (for a vector of offsets, the positions referred to), or the
\* position of the table; nullptr stays nullptr.
Decode(B, a, r) ==
  CASE a.kind = "scalar" -> r
    [] r = nullptr -> nullptr
    [] a.kind = "struct" ->
         [x |-> Vec3_x(B, r), y |-> Vec3_y(B, r), z |-> Vec3_z(B, r),
          test1 |-> Vec3_test1(B, r), test2 |-> Vec3_test2(B, r),
          test3 |-> [a |-> Test_a(B, Vec3_test3(B, r)),
                     b |-> Test_b(B, Vec3_test3(B, r))]]
    [] a.kind = "string" -> StringBytes(B, r)
    [] a.kind = "vector" /\ a.ty = "uint8" ->
         [i \in 1..VectorSize(B, r) |-> ReadU(B, VectorData(B, r) + (i - 1), 1)]
    [] a.kind = "vector" /\ a.ty = "Test" ->
         [i \in 1..VectorSize(B, r) |->
            [a |-> Test_a(B, VectorData(B, r) + Test_struct.size * (i - 1)),
             b |-> Test_b(B, VectorData(B, r) + Test_struct.size * (i - 1))]]
    [] a.kind = "vector" ->
         [i \in 1..VectorSize(B, r) |-> VectorGetIndirect(B, r, i - 1)]
    [] OTHER -> r

\* The bytes the field of accessor a holds in the table.
FieldSize(a) == IF a.kind \in {"scalar", "struct"} THEN InlineSize(a.ty) ELSE 4

\* One past the last byte of object i in buffer B: a string's or vector's
\* length and elements, a table's vtable offset, vtable and fields.
ObjEnd(B, i) ==
  LET p == Pos(i)
  IN CASE objs[i].kind = "string" -> p + 4 + VectorSize(B, p)
       [] objs[i].kind = "vector" ->
            p + 4 + VectorSize(B, p) * InlineSize(objs[i].ty)
       [] OTHER ->
            MaxOf({p + 4, GetVTable(B, p) + ReadU(B, GetVTable(B, p), 2)}
                  \cup {p + GetOptionalFieldOffset(B, p, Accessors(objs[i].ty)[k].off)
                          + FieldSize(Accessors(objs[i].ty)[k]) :
                        k \in {k \in 1..Len(Accessors(objs[i].ty)) :
                                 GetOptionalFieldOffset(B, p, Accessors(objs[i].ty)[k].off) # 0}})

\* The bytes of the buffer up to the end of the last object reachable from
\* the root.
ReachedLen == MaxOf({8} \cup {ObjEnd(fbb.buf, i) : i \in Reach(root)})

\* B with the n bytes at position p replaced by the encoding of v.
WriteScalar(B, p, v, n) ==
  [k \in 1..Len(B) |-> IF k > p /\ k <= p + n THEN ByteOf(v, k - p - 1) ELSE B[k]]

\* The offset fields of table i in the buffer: its vtable offset, the
\* vtable entries of its present fields, and the offsets its present
\* string, vector, table and union fields hold.
TableSites(B, i) ==
  LET t == Pos(i)
      present == {k \in 1..Len(Accessors(objs[i].ty)) :
                    GetOptionalFieldOffset(B, t, Accessors(objs[i].ty)[k].off) # 0}
  IN {[kind |-> "vtable offset", at |-> t, base |-> t, field |-> "none"]}
     \cup {[kind |-> "vtable entry",
            at |-> GetVTable(B, t) + Accessors(objs[i].ty)[k].off,
            base |-> t, field |-> Accessors(objs[i].ty)[k].name] : k \in present}
     \cup {[kind |-> IF Accessors(objs[i].ty)[k].kind = "union" /\ TagOf(i) = Any_NONE
                     THEN "untyped union offset" ELSE "object offset",
            at |-> t + GetOptionalFieldOffset(B, t, Accessors(objs[i].ty)[k].off),
            base |-> t + GetOptionalFieldOffset(B, t, Accessors(objs[i].ty)[k].off),
            field |-> Accessors(objs[i].ty)[k].name] :
           k \in {k \in present : Accessors(objs[i].ty)[k].kind
                                    \in {"string", "vector", "table", "union"}}}

\* The offsets a vector of offsets holds.
VectorSites(B, i) ==
  {[kind |-> "object offset", at |-> Pos(i) + 4 + 4 * k, base |-> Pos(i) + 4 + 4 * k,
    field |-> "element"] : k \in 0..(VectorSize(B, Pos(i)) - 1)}

\* The offset fields of the buffer that lie on a path from the root.
Sites(B) ==
  {[kind |-> "root offset", at |-> 0, base |-> 0, field |-> "none"]}
  \cup UNION {CASE objs[i].kind = "table" -> TableSites(B, i)
                [] objs[i].kind = "vector" /\ objs[i].ty \in {"string", "Monster"} ->
                     VectorSites(B, i)
                [] OTHER -> {} : i \in Reach(root)}

\* Values that make the offset field s resolve outside B: just past the end
\* and far past it (for a vtable offset, before the start).
OutOfBounds(B, s) ==
  CASE s.kind = "vtable offset" -> {s.base - Len(B), s.base + 4}
    [] s.kind = "vtable entry" -> {Len(B) - s.base, 65535}
    [] OTHER -> {Len(B) - s.base, 16777216}

SiteWidth(s) == IF s.kind = "vtable entry" THEN 2 ELSE 4

NoTamper == [kind |-> "none", at |-> 0, field |-> "none", val |-> 0]

Verdict(B) == IF VerifyMonsterBuffer(B) THEN "ok" ELSE "rejected"

\* VerifyMonsterBuffer on the finished buffer as it is.
DoVerify ==
  /\ phase = "finished"
  /\ got = NoGot /\ verdict = "none"
  /\ view' = fbb.buf
  /\ tamper' = [NoTamper EXCEPT !.kind = "intact"]
  /\ verdict' = Verdict(view')
  /\ UNCHANGED <<schemavars, verifyvars, misuse, focus, fbb, phase, builder_, objs, root, got>>

\* VerifyMonsterBuffer on the first n bytes of the finished buffer.
DoVerifyTruncated ==
  /\ phase = "finished"
  /\ got = NoGot /\ verdict = "none"
  /\ \E n \in 0..(Len(fbb.buf) - 1) :
       /\ view' = SubSeq(fbb.buf, 1, n)
       /\ tamper' = [NoTamper EXCEPT !.kind = "truncated", !.at = n]
       /\ verdict' = Verdict(view')
  /\ UNCHANGED <<schemavars, verifyvars, misuse, focus, fbb, phase, builder_, objs, root, got>>

\* VerifyMonsterBuffer on the finished buffer with one offset field changed
\* to a value that resolves outside the buffer.
DoVerifyCorrupted ==
  /\ phase = "finished"
  /\ got = NoGot /\ verdict = "none"
  /\ \E s \in Sites(fbb.buf) : \E v \in OutOfBounds(fbb.buf, s) :
       /\ view' = WriteScalar(fbb.buf, s.at, v, SiteWidth(s))
       /\ tamper' = [kind |-> s.kind, at |-> s.at, field |-> s.field, val |-> v]
       /\ verdict' = Verdict(view')
  /\ UNCHANGED <<schemavars, verifyvars, misuse, focus, fbb, phase, builder_, objs, root, got>>

\* VerifyMonsterBuffer on a buffer in which one field of a table is absent:
\* the finished buffer with the field's vtable entry set to 0.
DoVerifyFieldRemoved ==
  /\ phase = "finished"
  /\ got = NoGot /\ verdict = "none"
  /\ \E s \in Sites(fbb.buf) :
       /\ s.kind = "vtable entry"
       /\ view' = WriteScalar(fbb.buf, s.at, 0, 2)
       /\ tamper' = [kind |-> "field removed", at |-> s.at, field |-> s.field, val |-> 0]
       /\ verdict' = Verdict(view')
  /\ UNCHANGED <<schemavars, verifyvars, misuse, focus, fbb, phase, builder_, objs, root, got>>

\* The schema version of the producer: the number of Monster fields its
\* schema declares, the last being the last field it sets.
ProducerVersion ==
  MaxOf({(AccessorNamed("Monster", n).off - 4) \div 2 + 1 : n \in UsedAdds})

\* The fields later versions of the schema append: the reader's schema has
\* them, the producer's has not.
NewerFields ==
  {MonsterAccessors[k].name :
     k \in {k \in 1..Len(MonsterAccessors) :
              (MonsterAccessors[k].off - 4) \div 2 + 1 > ProducerVersion}}

\* The accessors this reader calls on a Monster: those of the fields the
\* producer uses, those of the scalar fields with a non-zero default, and
\* those of the fields the producer's schema does not have yet.
ReadNames == UsedAdds \cup {"mana", "hp", "color"} \cup NewerFields

\* monster->field(), stat->field(), ...: one accessor call on a table of
\* the finished buffer.
DoAccess ==
  /\ phase = "finished"
  /\ got = NoGot /\ verdict = "none"
  /\ \E i \in 1..Len(objs) :
       /\ objs[i].kind = "table"
       /\ \E k \in 1..Len(Accessors(objs[i].ty)) :
            LET a == Accessors(objs[i].ty)[k]
                r == Accessor(fbb.buf, Pos(i), a)
            IN /\ objs[i].ty = "Monster" => a.name \in ReadNames
               /\ got' = [obj |-> i, name |-> a.name, raw |-> r,
                          val |-> Decode(fbb.buf, a, r)]
  /\ UNCHANGED <<schemavars, verifyvars, misuse, focus, fbb, phase, builder_, objs, root, view, tamper, verdict>>

Next ==
  \/ DoCreateString
  \/ DoCreateVector
  \/ DoCreateVectorOfStructs
  \/ DoCreateVectorOfOffsets
  \/ DoCreateTestSimpleTableWithEnum
  \/ DoCreateStat
  \/ DoStartTable
  \/ DoAdd
  \/ DoFinishTable
  \/ DoFinishBuffer
  \/ DoAccess
  \/ DoVerify
  \/ DoVerifyTruncated
  \/ DoVerifyCorrupted
  \/ DoVerifyFieldRemoved

Spec == Init /\ [][Next]_vars


\* ------------------------------------------------------------------
\* In-place mutation: the caller of GetMutableMonster overwrites one scalar
\* field of a table, or one member of the struct a Monster holds, in the
\* finished buffer.
\* ------------------------------------------------------------------

\* SetField(field, val): overwrites the field where the table stores it and
\* reports success; an absent field is left alone and failure is reported.
SetField(B, t, field, val, n) ==
  LET field_offset == GetOptionalFieldOffset(B, t, field)
  IN IF field_offset = 0 THEN [ok |-> FALSE, buf |-> B]
     ELSE [ok |-> TRUE, buf |-> WriteScalar(B, t + field_offset, val, n)]

\* A mutate_<field> method of a table: the vtable offset and the scalar
\* type it passes to SetField.
TestSimpleTableWithEnum_mutate_color == [name |-> "color", off |-> 4, ty |-> "int8"]

Stat_mutate_val == [name |-> "val", off |-> 6, ty |-> "int64"]

Stat_mutate_count == [name |-> "count", off |-> 8, ty |-> "uint16"]

\* mutate_mana passing hp's vtable offset to SetField.
Monster_mutate_mana_at_hp == [name |-> "mana", off |-> 8, ty |-> "int16"]

Monster_mutate_mana == [name |-> "mana", off |-> 6, ty |-> "int16"]

Monster_mutate_hp == [name |-> "hp", off |-> 8, ty |-> "int16"]

Monster_mutate_color == [name |-> "color", off |-> 16, ty |-> "int8"]

Monster_mutate_test_type == [name |-> "test_type", off |-> 18, ty |-> "uint8"]

Monster_mutate_testbool == [name |-> "testbool", off |-> 34, ty |-> "uint8"]

HashMutate(name, off, ty) == [name |-> name, off |-> off, ty |-> ty]

Mutators(type) ==
  CASE type = "Monster" ->
         <<Monster_mutate_mana, Monster_mutate_hp, Monster_mutate_color,
           Monster_mutate_test_type, Monster_mutate_testbool,
           HashMutate("testhashs32_fnv1", 36, "int32"),
           HashMutate("testhashu32_fnv1", 38, "uint32"),
           HashMutate("testhashs64_fnv1", 40, "int64"),
           HashMutate("testhashu64_fnv1", 42, "uint64"),
           HashMutate("testhashs32_fnv1a", 44, "int32"),
           HashMutate("testhashu32_fnv1a", 46, "uint32"),
           HashMutate("testhashs64_fnv1a", 48, "int64"),
           HashMutate("testhashu64_fnv1a", 50, "uint64")>>
    [] type = "Stat" -> <<Stat_mutate_val, Stat_mutate_count>>
    [] type = "TestSimpleTableWithEnum" -> <<TestSimpleTableWithEnum_mutate_color>>

\* A mutate_<member> method of a struct at p: WriteScalar(&member_, value).
Test_mutate_a(B, p, a) == WriteScalar(B, p + MemberOffset(Test_members, "a"), a, 2)

Test_mutate_b(B, p, b) == WriteScalar(B, p + MemberOffset(Test_members, "b"), b, 1)

Vec3_mutate_x(B, p, x) == WriteScalar(B, p + MemberOffset(Vec3_members, "x"), x, 4)

Vec3_mutate_y(B, p, y) == WriteScalar(B, p + MemberOffset(Vec3_members, "y"), y, 4)

Vec3_mutate_z(B, p, z) == WriteScalar(B, p + MemberOffset(Vec3_members, "z"), z, 4)

Vec3_mutate_test1(B, p, test1) ==
  WriteScalar(B, p + MemberOffset(Vec3_members, "test1"), test1, 8)

Vec3_mutate_test2(B, p, test2) ==
  WriteScalar(B, p + MemberOffset(Vec3_members, "test2"), test2, 1)

\* Vec3::mutable_test3()
Vec3_mutable_test3(B, p) == p + MemberOffset(Vec3_members, "test3")

\* Monster::mutable_pos()
Monster_mutable_pos(B, t) == GetStruct(B, t, 4)

\* The members of the struct at pos a caller can overwrite, test3's through
\* mutable_test3(), each with its size.
StructMutators ==
  <<[name |-> "x", ty |-> "uint32"], [name |-> "y", ty |-> "uint32"],
    [name |-> "z", ty |-> "uint32"], [name |-> "test1", ty |-> "uint64"],
    [name |-> "test2", ty |-> "int8"], [name |-> "test3.a", ty |-> "int16"],
    [name |-> "test3.b", ty |-> "int8"]>>

StructMutate(B, p, name, v) ==
  CASE name = "x" -> Vec3_mutate_x(B, p, v)
    [] name = "y" -> Vec3_mutate_y(B, p, v)
    [] name = "z" -> Vec3_mutate_z(B, p, v)
    [] name = "test1" -> Vec3_mutate_test1(B, p, v)
    [] name = "test2" -> Vec3_mutate_test2(B, p, v)
    [] name = "test3.a" -> Test_mutate_a(B, Vec3_mutable_test3(B, p), v)
    [] name = "test3.b" -> Test_mutate_b(B, Vec3_mutable_test3(B, p), v)

\* The values a mutate method is called with, by the type of its parameter.
MutateValues(ty) == IF IsSigned(ty) THEN {0, 0 - 2, 9} ELSE {0, 1, 9}

\* GetMutableMonster(buf), then mutate_<field>(v) on a table reached from it.
DoMutate ==
  /\ phase = "finished"
  /\ tamper = NoTamper /\ got = NoGot
  /\ \E i \in 1..Len(objs) :
       /\ objs[i].kind = "table"
       /\ \E k \in 1..Len(Mutators(objs[i].ty)) :
          \E v \in MutateValues(Mutators(objs[i].ty)[k].ty) :
            LET m == Mutators(objs[i].ty)[k]
                r == SetField(fbb.buf, Pos(i), m.off, v, SizeOf(m.ty))
            IN /\ objs[i].ty = "Monster" => m.name \in UsedAdds \cup {"mana", "hp", "color"}
               /\ view' = r.buf
               /\ tamper' = [kind |-> "mutated", at |-> i, field |-> m.name, val |-> v]
               /\ got' = [obj |-> i, name |-> m.name, raw |-> IF r.ok THEN 1 ELSE 0,
                          val |-> v]
  /\ UNCHANGED <<schemavars, verifyvars, misuse, focus, fbb, phase, builder_, objs, root, verdict>>

\* mutable_pos(), then mutate_<member>(v) on the struct, or on its test3.
DoMutateStruct ==
  /\ phase = "finished"
  /\ tamper = NoTamper /\ got = NoGot
  /\ \E i \in ObjsOf("table", "Monster") :
       /\ Monster_mutable_pos(fbb.buf, Pos(i)) # nullptr
       /\ \E k \in 1..Len(StructMutators) :
          \E v \in MutateValues(StructMutators[k].ty) :
            /\ view' = StructMutate(fbb.buf, Monster_mutable_pos(fbb.buf, Pos(i)),
                                    StructMutators[k].name, v)
            /\ tamper' = [kind |-> "mutated", at |-> i,
                          field |-> StructMutators[k].name, val |-> v]
            /\ got' = [obj |-> i, name |-> "pos", raw |-> 1, val |-> v]
  /\ UNCHANGED <<schemavars, verifyvars, misuse, focus, fbb, phase, builder_, objs, root, verdict>>

MutateNext ==
  \/ DoCreateString
  \/ DoCreateVector
  \/ DoCreateVectorOfStructs
  \/ DoCreateVectorOfOffsets
  \/ DoCreateTestSimpleTableWithEnum
  \/ DoCreateStat
  \/ DoStartTable
  \/ DoAdd
  \/ DoFinishTable
  \/ DoFinishBuffer
  \/ DoMutate
  \/ DoMutateStruct

SpecMutate == Init /\ [][MutateNext]_vars


\* ------------------------------------------------------------------
\* The schema compiler: the parser lays out a declaration into a StructDef
\* (fixed struct: offsets, padding, alignment, size; table: vtable offsets),
\* then the Java generator (idl_gen_java.cpp, GenStruct) walks its fields
\* and emits the accessors and the builder methods.
\* ------------------------------------------------------------------

\* Bound: fields per generated declaration.
MaxFields == 3

FieldNames == <<"f1", "f2", "f3", "f4", "f5", "f6">>

DeclField(name, ty, deprecated, constant) ==
  [name |-> name, ty |-> ty, deprecated |-> deprecated, constant |-> constant]

\* struct Test { a:short; b:byte; }
TestDecl ==
  [name |-> "Test", fixed |-> TRUE, force_align |-> 0,
   fields |-> <<DeclField("a", "int16", FALSE, 0), DeclField("b", "int8", FALSE, 0)>>]

\* struct Vec3 (force_align: 16) { x, y, z:float; test1:double; test2:Color;
\* test3:Test; }
Vec3Decl ==
  [name |-> "Vec3", fixed |-> TRUE, force_align |-> 16,
   fields |-> <<DeclField("x", "float", FALSE, 0), DeclField("y", "float", FALSE, 0),
                DeclField("z", "float", FALSE, 0), DeclField("test1", "double", FALSE, 0),
                DeclField("test2", "int8", FALSE, 0), DeclField("test3", "Test", FALSE, 0)>>]

\* The type of a vector field, by the type of its elements.
VectorOf(element) ==
  CASE element = "int8" -> "[int8]"
    [] element = "uint8" -> "[uint8]"
    [] element = "int16" -> "[int16]"
    [] element = "int64" -> "[int64]"
    [] element = "string" -> "[string]"
    [] element = "Test" -> "[Test]"
    [] element = "Monster" -> "[Monster]"

ElementTypes == {"int8", "uint8", "int16", "int64", "string", "Test", "Monster"}

IsVector(ty) == \E e \in ElementTypes : ty = VectorOf(e)

\* Type::VectorType(): the type of the elements.
VectorType(ty) == CHOOSE e \in ElementTypes : ty = VectorOf(e)

\* table Monster: the fields of the generated accessors in their order, and
\* the deprecated field, fifth in the declaration, that has none.
MonsterDecl ==
  [name |-> "Monster", fixed |-> FALSE, force_align |-> 0,
   fields |->
     [k \in 1..(Len(MonsterAccessors) + 1) |->
        IF k = 5 THEN DeclField("friendly", "uint8", TRUE, 0)
        ELSE LET a == MonsterAccessors[IF k < 5 THEN k ELSE k - 1]
             IN DeclField(a.name, IF a.kind = "vector" THEN VectorOf(a.ty) ELSE a.ty,
                          FALSE, a.def)]]

\* The declarations compiled: those of the test schema, every table of up
\* to MaxFields short fields, deprecated or not, every fixed struct of up
\* to MaxFields fields, and the tables of a short, deprecated or not, and a
\* vector.
StructFieldTypes == {"int8", "int16", "double", "Test"}

VectorFieldTypes == {"[int8]", "[int16]", "[int64]", "[string]", "[Monster]"}

Decls ==
  {TestDecl, Vec3Decl, MonsterDecl}
  \cup {[name |-> "T", fixed |-> FALSE, force_align |-> 0,
         fields |-> [k \in 1..Len(d) |-> DeclField(FieldNames[k], "int16", d[k], 0)]] :
        d \in SeqsUpTo(BOOLEAN, MaxFields)}
  \cup {[name |-> "S", fixed |-> TRUE, force_align |-> 0,
         fields |-> [k \in 1..Len(tys) |-> DeclField(FieldNames[k], tys[k], FALSE, 0)]] :
        tys \in SeqsUpTo(StructFieldTypes, MaxFields)}
  \cup {[name |-> "V", fixed |-> FALSE, force_align |-> 0,
         fields |-> <<DeclField("f1", "int16", d, 0), DeclField("f2", vty, FALSE, 0)>>] :
        d \in BOOLEAN, vty \in VectorFieldTypes}

\* FieldDef: the declared field with the offset the parser gives it.
FieldDef(f, offset) ==
  [name |-> f.name, ty |-> f.ty, deprecated |-> f.deprecated,
   constant |-> f.constant, offset |-> offset, padding |-> 0]

\* StructDef::PadLastField: pads the struct to min_align and records the
\* padding with the last field.
PadLastField(sd, min_align) ==
  LET padding == PaddingBytes(sd.bytesize, min_align)
  IN [sd EXCEPT !.bytesize = @ + padding,
                !.fields = IF Len(@) > 0
                           THEN [@ EXCEPT ![Len(@)].padding = padding] ELSE @]

\* Parser::AddField: a struct field goes at the next offset that is a
\* multiple of its alignment; a table field gets the next vtable offset.
AddField(sd, f) ==
  IF sd.fixed
  THEN LET alignment == InlineAlignment(f.ty)
           sd1 == PadLastField([sd EXCEPT !.minalign = Max(@, alignment)], alignment)
       IN [sd1 EXCEPT !.fields = Append(@, FieldDef(f, sd1.bytesize)),
                      !.bytesize = @ + InlineSize(f.ty)]
  ELSE [sd EXCEPT !.fields = Append(@, FieldDef(f, FieldIndexToOffset(Len(sd.fields))))]

\* The end of a declaration: a struct takes the forced alignment when it is
\* larger and is padded to its alignment.
EndDecl(sd, force_align) ==
  IF sd.fixed
  THEN PadLastField([sd EXCEPT !.minalign = Max(@, force_align)],
                    Max(sd.minalign, force_align))
  ELSE sd

\* The StructDef of a whole declaration: what the parser has once it has
\* read the first k fields, and at the end of the declaration.
RECURSIVE ParseFields(_, _)
ParseFields(d, k) ==
  IF k = 0 THEN [NoStructDef EXCEPT !.name = d.name, !.fixed = d.fixed]
  ELSE AddField(ParseFields(d, k - 1), d.fields[k])

ParseDecl(d) == EndDecl(ParseFields(d, Len(d.fields)), d.force_align)

\* The StructDef a struct-typed field refers to.
StructDefOf(ty) == ParseDecl(CHOOSE d \in {TestDecl, Vec3Decl} : d.name = ty)

IsStruct(ty) == ty \in {"Test", "Vec3"}

\* One emitted method; body holds the statements of a struct constructor.
Emit(kind, name, num, constant) ==
  [kind |-> kind, name |-> name, num |-> num, constant |-> constant, body |-> <<>>]

\* One emitted statement of a struct constructor.
Stmt(op, name, n, align) == [op |-> op, name |-> name, n |-> n, align |-> align]

\* GenStructBody: builder.prep(minalign, bytesize), then from the last
\* field to the first, builder.pad(padding) where the field has padding,
\* and builder.put<Type> of the field, or the body of its struct.
RECURSIVE GenStructFields(_, _)
RECURSIVE GenStructBody(_)
RECURSIVE GenStructFields_pad_after_put(_, _)
\* GenStructBody emitting a field's padding after its put.
GenStructFields_pad_after_put(sd, k) ==
  IF k = 0 THEN <<>>
  ELSE LET field == sd.fields[k]
       IN (IF IsStruct(field.ty) THEN GenStructBody(StructDefOf(field.ty))
           ELSE <<Stmt("put", field.name, SizeOf(field.ty), SizeOf(field.ty))>>)
          \o (IF field.padding # 0
              THEN <<Stmt("pad", field.name, field.padding, 1)>> ELSE <<>>)
          \o GenStructFields_pad_after_put(sd, k - 1)

GenStructFields(sd, k) ==
  IF k = 0 THEN <<>>
  ELSE LET field == sd.fields[k]
       IN (IF field.padding # 0
           THEN <<Stmt("pad", field.name, field.padding, 1)>> ELSE <<>>)
          \o (IF IsStruct(field.ty) THEN GenStructBody(StructDefOf(field.ty))
              ELSE <<Stmt("put", field.name, SizeOf(field.ty), SizeOf(field.ty))>>)
          \o GenStructFields(sd, k - 1)

GenStructBody(sd) ==
  <<Stmt("prep", sd.name, sd.bytesize, sd.minalign)>>
  \o GenStructFields(sd, Len(sd.fields))

\* The accessor of field i. A table field is read through the vtable at
\* field.value.offset with default field.value.constant; a struct field is
\* read at bb_pos + field.value.offset.
GenAccessor(sd, i) ==
  [Emit("accessor", sd.fields[i].name, sd.fields[i].offset, sd.fields[i].constant)
     EXCEPT !.body =
       IF IsVector(sd.fields[i].ty)
       THEN <<Stmt("__vector", VectorType(sd.fields[i].ty),
                   InlineSize(VectorType(sd.fields[i].ty)), 0)>>
       ELSE <<>>]

\* <field>Length() of a vector field: __offset(field.value.offset), then
\* __vector_len(o), 0 when the field is absent.
GenLength(sd, i) == Emit("length", sd.fields[i].name, sd.fields[i].offset, 0)

\* What the first loop of GenStruct emits for field i.
GenFieldAccessors(sd, i) ==
  <<GenAccessor(sd, i)>>
  \o (IF IsVector(sd.fields[i].ty) THEN <<GenLength(sd, i)>> ELSE <<>>)

\* start<Name>: builder.startObject(fields.size())
GenStartObject(sd) == Emit("startObject", sd.name, Len(sd.fields), 0)

\* add<Field> with the slot counted over the fields that are not
\* deprecated.
GenAddMethod_counting_live_fields(sd, i) ==
  Emit("add", sd.fields[i].name,
       Cardinality({k \in 1..(i - 1) : ~sd.fields[k].deprecated}),
       sd.fields[i].constant)

\* add<Field>: builder.add<Type>(it - begin, value, constant)
GenAddMethod(sd, i) == Emit("add", sd.fields[i].name, i - 1, sd.fields[i].constant)

\* create<Field>Vector adding the elements from index 0 up.
GenCreateVector_from_first(sd, i) ==
  LET vector_type == VectorType(sd.fields[i].ty)
  IN [Emit("createVector", sd.fields[i].name, 0, 0) EXCEPT !.body =
        <<Stmt("startVector", "data.length", InlineSize(vector_type),
               InlineAlignment(vector_type)),
          Stmt("addFromFirst", vector_type, InlineSize(vector_type), 0),
          Stmt("endVector", "", 0, 0)>>]

\* create<Field>Vector(builder, data): builder.startVector(elem_size,
\* data.length, alignment); for (i = data.length - 1; i >= 0; i--)
\* builder.add<Type>(data[i]); return builder.endVector().
GenCreateVector(sd, i) ==
  LET vector_type == VectorType(sd.fields[i].ty)
  IN [Emit("createVector", sd.fields[i].name, 0, 0) EXCEPT !.body =
        <<Stmt("startVector", "data.length", InlineSize(vector_type),
               InlineAlignment(vector_type)),
          Stmt("addFromLast", vector_type, InlineSize(vector_type), 0),
          Stmt("endVector", "", 0, 0)>>]

\* start<Field>Vector(builder, numElems): builder.startVector(elem_size,
\* numElems, alignment).
GenStartVector(sd, i) ==
  LET vector_type == VectorType(sd.fields[i].ty)
  IN [Emit("startVector", sd.fields[i].name, 0, 0) EXCEPT !.body =
        <<Stmt("startVector", "numElems", InlineSize(vector_type),
               InlineAlignment(vector_type))>>]

\* What the second loop of GenStruct emits for field i: the add method
\* and, for a vector, the create method (unless the elements are structs)
\* and the start method.
GenFieldAdds(sd, i) ==
  <<GenAddMethod(sd, i)>>
  \o (IF ~IsVector(sd.fields[i].ty) THEN <<>>
      ELSE (IF IsStruct(VectorType(sd.fields[i].ty)) THEN <<>>
            ELSE <<GenCreateVector(sd, i)>>)
           \o <<GenStartVector(sd, i)>>)

\* create<Name>: the struct constructor function.
GenCreateStruct(sd) ==
  [Emit("create", sd.name, 0, 0) EXCEPT !.body = GenStructBody(sd)]

\* end<Name>: builder.endObject()
GenEndObject(sd) == Emit("endObject", sd.name, 0, 0)

SchemaInit ==
  /\ focus = "none"
  /\ fbb = NewBuilder
  /\ phase = "idle"
  /\ builder_ = NoBuilder
  /\ objs = <<>>
  /\ root = 0
  /\ view = <<>>
  /\ tamper = NoTamper
  /\ verdict = "none"
  /\ got = NoGot
  /\ misuse = "none"
  /\ decl \in Decls
  /\ struct_def = [NoStructDef EXCEPT !.name = decl.name, !.fixed = decl.fixed]
  /\ pc = "parse"
  /\ it = 1
  /\ code = <<>>
  /\ JavaIdle
  /\ VerifierIdle

\* The parser reads the next field of the declaration.
ParseField ==
  /\ pc = "parse"
  /\ it <= Len(decl.fields)
  /\ struct_def' = AddField(struct_def, decl.fields[it])
  /\ it' = it + 1
  /\ UNCHANGED <<mainvars, verifyvars, javavars, decl, pc, code>>

\* The parser reaches the end of the declaration; GenStruct starts.
ParseEnd ==
  /\ pc = "parse"
  /\ it > Len(decl.fields)
  /\ struct_def' = EndDecl(struct_def, decl.force_align)
  /\ pc' = "accessors"
  /\ it' = 1
  /\ UNCHANGED <<mainvars, verifyvars, javavars, decl, code>>

\* GenStruct, first loop: an accessor per field, deprecated fields skipped.
GenAccessors ==
  /\ pc = "accessors"
  /\ it <= Len(struct_def.fields)
  /\ code' = IF struct_def.fields[it].deprecated THEN code
             ELSE code \o GenFieldAccessors(struct_def, it)
  /\ it' = it + 1
  /\ UNCHANGED <<mainvars, verifyvars, javavars, decl, struct_def, pc>>

\* GenStruct after the accessors: the constructor function of a struct, or
\* the start method of a table.
GenStart ==
  /\ pc = "accessors"
  /\ it > Len(struct_def.fields)
  /\ IF struct_def.fixed
     THEN code' = Append(code, GenCreateStruct(struct_def)) /\ pc' = "done"
     ELSE code' = Append(code, GenStartObject(struct_def)) /\ pc' = "adds"
  /\ it' = 1
  /\ UNCHANGED <<mainvars, verifyvars, javavars, decl, struct_def>>

\* GenStruct, second loop: an add method per field, deprecated fields
\* skipped.
GenAdds ==
  /\ pc = "adds"
  /\ it <= Len(struct_def.fields)
  /\ code' = IF struct_def.fields[it].deprecated THEN code
             ELSE code \o GenFieldAdds(struct_def, it)
  /\ it' = it + 1
  /\ UNCHANGED <<mainvars, verifyvars, javavars, decl, struct_def, pc>>

\* GenStruct: the end method of a table.
GenEnd ==
  /\ pc = "adds"
  /\ it > Len(struct_def.fields)
  /\ code' = Append(code, GenEndObject(struct_def))
  /\ pc' = "done"
  /\ UNCHANGED <<mainvars, verifyvars, javavars, decl, struct_def, it>>

SchemaNext ==
  \/ ParseField
  \/ ParseEnd
  \/ GenAccessors
  \/ GenStart
  \/ GenAdds
  \/ GenEnd

SpecSchema == SchemaInit /\ [][SchemaNext]_vars

\* ------------------------------------------------------------------
\* GenerateJava (idl_gen_java.cpp): one class file per enum and per
\* struct or table of the parser, the enums first.  SaveFile and
\* EnsureDirExists belong to the file utilities; whether SaveFile
\* succeeds is the file system's answer.
\* ------------------------------------------------------------------

\* Bound: definitions per symbol table of the parser (enums_, structs_).
MaxDefs == 2

EnumVal(name, value) == [name |-> name, value |-> value]

EnumDef(name, underlying_type, vals, generated) ==
  [name |-> name, underlying_type |-> underlying_type, vals |-> vals,
   generated |-> generated]

\* enum Color : byte { Red = 1, Green, Blue = 8 }
ColorDef ==
  EnumDef("Color", "int8",
          <<EnumVal("Red", 1), EnumVal("Green", 2), EnumVal("Blue", 8)>>, FALSE)

\* union Any { Monster, TestSimpleTableWithEnum }
AnyDef ==
  EnumDef("Any", "uint8",
          <<EnumVal("NONE", Any_NONE), EnumVal("Monster", Any_Monster),
            EnumVal("TestSimpleTableWithEnum", Any_TestSimpleTableWithEnum)>>, FALSE)

\* The sequences of no to MaxDefs definitions with distinct names, in any
\* order, each either declared in the file compiled or in an included file
\* whose code was generated before (generated).
DefSeqs(defs) ==
  {s \in {<<>>} \cup SeqsUpTo({[d EXCEPT !.generated = g] : d \in defs, g \in BOOLEAN},
                              MaxDefs) :
     \A j, k \in 1..Len(s) : j # k => s[j].name # s[k].name}

\* The parsers handed to GenerateJava: enums and structs of the test
\* schema, in a namespace of no, one or two components, with or without a
\* root type and a file identifier.
Parsers ==
  {[enums_ |-> es, structs_ |-> ss, namespaces_ |-> ns,
    root_struct_def |-> r, file_identifier_ |-> IF r = "none" THEN "" ELSE "MONS"] :
     es \in DefSeqs({ColorDef, AnyDef}),
     ss \in DefSeqs({ParseDecl(TestDecl), ParseDecl(Vec3Decl), ParseDecl(MonsterDecl)}),
     ns \in {<<>>, <<"MyGame", "Example">>},
     r \in {"none", "Monster"}}

\* GenEnum: nothing for a generated enum; otherwise the class with one
\* constant per value.
GenEnum(enum_def) ==
  IF enum_def.generated THEN <<>>
  ELSE <<Emit("class", enum_def.name, 0, 0)>>
       \o [k \in 1..Len(enum_def.vals) |->
             Emit("constant", enum_def.vals[k].name, 0, enum_def.vals[k].value)]
       \o <<Emit("end", enum_def.name, 0, 0)>>

\* The two loops of GenStruct over the fields, up to field k.
RECURSIVE GenStruct_accessors(_, _)
GenStruct_accessors(sd, k) ==
  IF k = 0 THEN <<>>
  ELSE GenStruct_accessors(sd, k - 1)
       \o (IF sd.fields[k].deprecated THEN <<>> ELSE GenFieldAccessors(sd, k))

RECURSIVE GenStruct_adds(_, _)
GenStruct_adds(sd, k) ==
  IF k = 0 THEN <<>>
  ELSE GenStruct_adds(sd, k - 1)
       \o (IF sd.fields[k].deprecated THEN <<>> ELSE GenFieldAdds(sd, k))

\* GenStruct: nothing for a generated struct; otherwise the class:
\* getRootAs (and BufferHasIdentifier for the root type of a schema with a
\* file identifier) for a table, __init, the accessors, then the
\* constructor function of a struct or the builder methods of a table
\* (with finish<Name>Buffer for the root type).
GenStruct(p, sd) ==
  IF sd.generated THEN <<>>
  ELSE <<Emit("class", sd.name, 0, 0)>>
       \o (IF sd.fixed THEN <<>>
           ELSE <<Emit("getRootAs", sd.name, 0, 0)>>
                \o (IF p.root_struct_def = sd.name /\ p.file_identifier_ # ""
                    THEN <<Emit("BufferHasIdentifier", p.file_identifier_, 0, 0)>>
                    ELSE <<>>))
       \o <<Emit("__init", sd.name, 0, 0)>>
       \o GenStruct_accessors(sd, Len(sd.fields))
       \o (IF sd.fixed THEN <<GenCreateStruct(sd)>>
           ELSE <<GenStartObject(sd)>>
                \o GenStruct_adds(sd, Len(sd.fields))
                \o <<GenEndObject(sd)>>
                \o (IF p.root_struct_def = sd.name
                    THEN <<Emit("finishBuffer", p.file_identifier_, 0, 0)>>
                    ELSE <<>>))
       \o <<Emit("end", sd.name, 0, 0)>>

\* An entry of the file system: a directory, or a file with its contents.
Dir(dir) == [kind |-> "dir", dir |-> dir, name |-> "", code |-> <<>>]

File(dir, name, buf) == [kind |-> "file", dir |-> dir, name |-> name, code |-> buf]

\* EnsureDirExists: creates the directory unless it is there.
EnsureDirExists(disk, dir) ==
  IF \E k \in 1..Len(disk) : disk[k] = Dir(dir) THEN disk ELSE Append(disk, Dir(dir))

\* SaveFile(name, buf): writes the file and returns true, or returns
\* false, as the file system answers (ok).
SaveFile(disk, dir, name, buf, ok) ==
  [ret |-> ok,
   files |-> IF ok
             THEN Append(SelectSeq(disk, LAMBDA f : ~(f.kind = "file" /\ f.dir = dir
                                                       /\ f.name = name)),
                         File(dir, name, buf))
             ELSE disk]

\* The text SaveClass puts around the class: the package of the
\* namespace and, when asked for, the imports.
Boilerplate(namespace_java, needs_imports, classcode) ==
  <<[Emit("package", "", 0, 0) EXCEPT !.body = namespace_java]>>
  \o (IF needs_imports THEN <<Emit("imports", "", 0, 0)>> ELSE <<>>)
  \o classcode

\* SaveClass returning at once for empty code only after the file is
\* written.
SaveClass_saving_empty_code(p, def, classcode, path, needs_imports, disk, ok) ==
  LET namespace_dir == <<path>> \o p.namespaces_
      saved == SaveFile(EnsureDirExists(disk, namespace_dir), namespace_dir,
                        def.name, Boilerplate(p.namespaces_, needs_imports, classcode), ok)
  IN IF classcode = <<>> THEN [ret |-> TRUE, files |-> saved.files] ELSE saved

\* SaveClass: true at once for empty code; otherwise the directory of
\* the namespace under path is made sure of and <name>.java is saved
\* in it, and the result is SaveFile's.
SaveClass(p, def, classcode, path, needs_imports, disk, ok) ==
  IF classcode = <<>> THEN [ret |-> TRUE, files |-> disk]
  ELSE LET namespace_dir == <<path>> \o p.namespaces_
       IN SaveFile(EnsureDirExists(disk, namespace_dir), namespace_dir, def.name,
                   Boilerplate(p.namespaces_, needs_imports, classcode), ok)

\* The directory GenerateJava is asked to write under.
OutPath == "out"

JavaInit ==
  /\ focus = "none"
  /\ fbb = NewBuilder
  /\ phase = "idle"
  /\ builder_ = NoBuilder
  /\ objs = <<>>
  /\ root = 0
  /\ view = <<>>
  /\ tamper = NoTamper
  /\ verdict = "none"
  /\ got = NoGot
  /\ misuse = "none"
  /\ decl = NoDecl
  /\ struct_def = NoStructDef
  /\ pc = "enums"
  /\ it = 1
  /\ code = <<>>
  /\ parser \in Parsers
  /\ files = <<>>
  /\ calls = <<>>
  /\ result = "none"
  /\ VerifierIdle

\* One pass of a loop of GenerateJava: the class code of the definition
\* is generated and handed to SaveClass; a false from SaveClass is
\* returned at once.
SaveGenerated(kind, def, classcode, needs_imports) ==
  \E ok \in BOOLEAN :
    LET saved == SaveClass(parser, def, classcode, OutPath, needs_imports, files, ok)
    IN /\ code' = classcode
       /\ files' = saved.files
       /\ calls' = Append(calls, [kind |-> kind, name |-> def.name,
                                  classcode |-> classcode,
                                  needs_imports |-> needs_imports, ret |-> saved.ret])
       /\ IF saved.ret THEN it' = it + 1 /\ result' = "none"
          ELSE it' = it /\ result' = "false"

\* for (it = parser.enums_.vec.begin(); ...): GenEnum, SaveClass.
GenerateJava_enums ==
  /\ result = "none"
  /\ pc = "enums"
  /\ it <= Len(parser.enums_)
  /\ SaveGenerated("enum", parser.enums_[it], GenEnum(parser.enums_[it]), FALSE)
  /\ UNCHANGED <<mainvars, verifyvars, decl, struct_def, pc, parser>>

\* The loop over the enums is over; the loop over the structs starts.
GenerateJava_enums_end ==
  /\ result = "none"
  /\ pc = "enums"
  /\ it > Len(parser.enums_)
  /\ pc' = "structs"
  /\ it' = 1
  /\ UNCHANGED <<mainvars, verifyvars, decl, struct_def, code, javavars>>

\* for (it = parser.structs_.vec.begin(); ...): GenStruct, SaveClass.
GenerateJava_structs ==
  /\ result = "none"
  /\ pc = "structs"
  /\ it <= Len(parser.structs_)
  /\ SaveGenerated("struct", parser.structs_[it],
                   GenStruct(parser, parser.structs_[it]), TRUE)
  /\ UNCHANGED <<mainvars, verifyvars, decl, struct_def, pc, parser>>

\* The loop over the structs is over: return true.
GenerateJava_return ==
  /\ result = "none"
  /\ pc = "structs"
  /\ it > Len(parser.structs_)
  /\ result' = "true"
  /\ UNCHANGED <<mainvars, verifyvars, decl, struct_def, pc, it, code, parser, files, calls>>

JavaNext ==
  \/ GenerateJava_enums
  \/ GenerateJava_enums_end
  \/ GenerateJava_structs
  \/ GenerateJava_return

SpecJava == JavaInit /\ [][JavaNext]_vars

\* ------------------------------------------------------------------
\* The verifier followed check by check: VerifyMonsterBuffer on buffers
\* in which Monsters nest through enemy, testarrayoftables or the union
\* test, or hold a Stat or a union of any type byte; intact, cut short, or
\* (buffers of up to two tables) with one byte overwritten.
\* ------------------------------------------------------------------

\* Bound: the Monsters nested in one buffer.
MaxNest == 4

AddMethod(type, name) ==
  CHOOSE m \in {BuilderAdds(type)[k] : k \in 1..Len(BuilderAdds(type))} : m.name = name

\* The builder after a string and d Monsters, each named by the string and
\* holding the one before it in the field link; off is the last Monster.
RECURSIVE Nested(_, _)
Nested(d, link) ==
  IF d = 0
  THEN [b |-> CreateString(NewBuilder, <<79, 114>>), off |-> 0,
        name |-> GetSize(CreateString(NewBuilder, <<79, 114>>))]
  ELSE LET in == Nested(d - 1, link)
           b0 == IF in.off # 0 /\ link = "testarrayoftables"
                 THEN CreateVectorOfOffsets(in.b, <<in.off>>) ELSE in.b
           arg == IF link = "testarrayoftables" THEN GetSize(b0) ELSE in.off
           b1 == BuilderAdd(StartTable_nested(b0), AddMethod("Monster", "name"), in.name)
           b2 == IF in.off = 0 THEN b1
                 ELSE BuilderAdd(b1, AddMethod("Monster", link), arg)
           b3 == IF in.off # 0 /\ link = "test"
                 THEN BuilderAdd(b2, AddMethod("Monster", "test_type"), Any_Monster)
                 ELSE b2
       IN [b |-> MonsterBuilder_Finish(b3, StartTable(b0)),
           off |-> EndTableOffset(b3), name |-> in.name]

\* The builder after a string, a table of type child and a Monster whose
\* union test refers to it with type byte tag; with no child the Monster
\* has the type byte only.
WithUnion(tag, child) ==
  LET s == CreateString(NewBuilder, <<79, 114>>)
      c == IF child = "Monster"
           THEN BuilderAdd(StartTable_nested(s), AddMethod("Monster", "name"), GetSize(s))
           ELSE CreateTestSimpleTableWithEnum_adds(s, 1)
      b0 == IF child = "none" THEN s ELSE BuilderFinish(child, c, StartTable(s))
      b1 == BuilderAdd(StartTable_nested(b0), AddMethod("Monster", "name"), GetSize(s))
      b2 == BuilderAdd(b1, AddMethod("Monster", "test_type"), tag)
      b3 == IF child = "none" THEN b2
            ELSE BuilderAdd(b2, AddMethod("Monster", "test"), EndTableOffset(c))
  IN [b |-> MonsterBuilder_Finish(b3, StartTable(b0)), off |-> EndTableOffset(b3)]

\* The builder after a string, a Stat with the string as id and a Monster
\* whose testempty refers to the Stat.
WithStat ==
  LET s == CreateString(NewBuilder, <<79, 114>>)
      c == CreateStat_adds(s, GetSize(s), 7, 7)
      b0 == StatBuilder_Finish(c, StartTable(s))
      b1 == BuilderAdd(StartTable_nested(b0), AddMethod("Monster", "name"), GetSize(s))
      b2 == BuilderAdd(b1, AddMethod("Monster", "testempty"), EndTableOffset(c))
  IN [b |-> MonsterBuilder_Finish(b2, StartTable(b0)), off |-> EndTableOffset(b2)]

NestLinks == {"enemy", "testarrayoftables", "test"}

\* The type bytes a producer may store: those of enum Any and one beyond.
TagBytes == {Any_NONE, Any_Monster, Any_TestSimpleTableWithEnum, 3}

VerifyInputs ==
  {[depth |-> 1, link |-> "none", tag |-> Any_NONE, child |-> "none"]}
  \cup {[depth |-> d, link |-> l, tag |-> IF l = "test" THEN Any_Monster ELSE Any_NONE,
          child |-> "Monster"] : d \in 2..MaxNest, l \in NestLinks}
  \cup {[depth |-> 2, link |-> "test", tag |-> g, child |-> c] :
          g \in TagBytes, c \in {"Monster", "TestSimpleTableWithEnum"}}
  \cup {[depth |-> 1, link |-> "test", tag |-> g, child |-> "none"] : g \in TagBytes}
  \cup {[depth |-> 2, link |-> "testempty", tag |-> Any_NONE, child |-> "Stat"]}

\* The finished buffer of an input.
BufferOf(in) ==
  LET r == CASE in.link = "testempty" -> WithStat
             [] in.link = "test" /\ in.depth <= 2 -> WithUnion(in.tag, in.child)
             [] OTHER -> Nested(in.depth, in.link)
  IN FinishMonsterBuffer(r.b, r.off).buf

\* The byte an overwrite stores.
Garbage == CHOOSE g \in {255} : TRUE

VerifyInit ==
  /\ focus = "none"
  /\ fbb = NewBuilder
  /\ phase = "idle"
  /\ builder_ = NoBuilder
  /\ objs = <<>>
  /\ root = 0
  /\ got = NoGot
  /\ misuse = "none"
  /\ SchemaIdle
  /\ input \in VerifyInputs
  /\ \E B \in {BufferOf(input)}, k \in {"intact", "truncated", "overwritten"} :
       \E n \in 0..(Len(B) - 1) :
         /\ k = "intact" => n = 0
         /\ k = "overwritten" => input.depth <= 2
         /\ tamper = [NoTamper EXCEPT !.kind = k, !.at = n]
         /\ view = CASE k = "intact" -> B
                     [] k = "truncated" -> SubSeq(B, 1, n)
                     [] OTHER -> WriteScalar(B, n, Garbage, 1)
  /\ verdict = "none"
  /\ stack = <<>>
  /\ log = <<>>

\* A table being verified: its position, its type, the check of its Verify
\* that comes next, and the element a loop over a vector is at.
Frame(t, type) == [t |-> t, type |-> type, i |-> 1, j |-> 0]

\* One evaluated check: the table and its type, the check, the depth it
\* ran at, whether it passed, and the table it made the verifier descend
\* into (nullptr when none).
Checked(t, type, st, depth, ok, into) ==
  [t |-> t, type |-> type, op |-> st.op, off |-> st.off, ty |-> st.ty,
   depth |-> depth, ok |-> ok, into |-> into]

Top == stack[Len(stack)]

TopStep == VerifyChain(Top.type)[Top.i]

\* The checks that may descend into another table.
DescendingOps == {"VerifyTable", "VerifyVectorOfTables", "VerifyAny"}

\* Verify stops at the first failing check.
Reject ==
  /\ verdict' = "rejected"
  /\ stack' = <<>>

\* VerifyAny returning true for a type it does not know.
VerifyAny_case_default_true(type) ==
  CASE type = Any_NONE -> "none"
    [] type = Any_Monster -> "Monster"
    [] type = Any_TestSimpleTableWithEnum -> "TestSimpleTableWithEnum"
    [] OTHER -> "none"

\* The table type VerifyAny verifies the union as, "none" where it returns
\* true at once, "fail" where it returns false.
VerifyAny_case(type) ==
  CASE type = Any_NONE -> "none"
    [] type = Any_Monster -> "Monster"
    [] type = Any_TestSimpleTableWithEnum -> "TestSimpleTableWithEnum"
    [] OTHER -> "fail"

\* verifier.VerifyBuffer<Monster>(): the root offset, then the root table.
VerifyBufferStart ==
  /\ phase = "idle" /\ tamper.kind # "none"
  /\ verdict = "none" /\ log = <<>>
  /\ LET ok == VerifyScalar(view, 0, 4, 4)
         st == VStep("VerifyBuffer", 0, "uoffset")
     IN /\ log' = <<Checked(0, "buffer", st, 0, ok, IF ok THEN GetRoot(view) ELSE nullptr)>>
        /\ IF ok
           THEN stack' = <<Frame(GetRoot(view), "Monster")>> /\ UNCHANGED verdict
           ELSE Reject
  /\ UNCHANGED <<mainvars_but_verdict, schemavars, input>>

\* The next check of the table on top, one that looks at this table, its
\* strings and its vectors only.
VerifyCheck ==
  /\ stack # <<>>
  /\ TopStep.op \notin DescendingOps \cup {"EndTable"}
  /\ LET ok == VerifyStep(view, Top.t, TopStep, Len(stack) - 1)
     IN /\ log' = Append(log, Checked(Top.t, Top.type, TopStep, Len(stack), ok, nullptr))
        /\ IF ok
           THEN stack' = [stack EXCEPT ![Len(stack)].i = @ + 1] /\ UNCHANGED verdict
           ELSE Reject
  /\ UNCHANGED <<mainvars_but_verdict, schemavars, input>>

\* The table a descending check goes into next: nullptr when there is
\* none (the field is absent, the vector is done, the union has no type),
\* "fail" when the check fails without looking further.
DescendInto ==
  LET p == GetPointer(view, Top.t, TopStep.off)
  IN CASE TopStep.op = "VerifyTable" -> [p |-> p, type |-> TopStep.ty]
       [] TopStep.op = "VerifyVectorOfTables" ->
            IF p = nullptr \/ Top.j >= VectorSize(view, p)
            THEN [p |-> nullptr, type |-> TopStep.ty]
            ELSE [p |-> VectorGetIndirect(view, p, Top.j), type |-> TopStep.ty]
       [] TopStep.op = "VerifyAny" ->
            LET c == VerifyAny_case(GetField(view, Top.t, Monster_test_type_off, "uint8", 0))
            IN IF c = "none" THEN [p |-> nullptr, type |-> c] ELSE [p |-> p, type |-> c]

\* A check that verifies a table referred to: the verifier goes into it, or
\* on to the next check when there is nothing to go into.
VerifyDescend ==
  /\ stack # <<>>
  /\ TopStep.op \in DescendingOps
  /\ LET d == DescendInto
         more == TopStep.op = "VerifyVectorOfTables" /\ d.p # nullptr
         here == IF more THEN [stack EXCEPT ![Len(stack)].j = @ + 1]
                 ELSE [stack EXCEPT ![Len(stack)].i = @ + 1, ![Len(stack)].j = 0]
     IN IF d.type = "fail"
        THEN /\ log' = Append(log, Checked(Top.t, Top.type, TopStep, Len(stack), FALSE, nullptr))
             /\ Reject
        ELSE /\ log' = Append(log, Checked(Top.t, Top.type, TopStep, Len(stack), TRUE, d.p))
             /\ stack' = IF d.p = nullptr THEN here
                         ELSE Append(here, Frame(d.p, d.type))
             /\ UNCHANGED verdict
  /\ UNCHANGED <<mainvars_but_verdict, schemavars, input>>

\* verifier.EndTable(): the table on top is done; the buffer is accepted
\* when it was the root.
VerifyEndTable ==
  /\ stack # <<>>
  /\ TopStep.op = "EndTable"
  /\ log' = Append(log, Checked(Top.t, Top.type, TopStep, Len(stack), TRUE, nullptr))
  /\ stack' = SubSeq(stack, 1, Len(stack) - 1)
  /\ verdict' = IF Len(stack) = 1 THEN "ok" ELSE verdict
  /\ UNCHANGED <<mainvars_but_verdict, schemavars, input>>

VerifyNext ==
  \/ VerifyBufferStart
  \/ VerifyCheck
  \/ VerifyDescend
  \/ VerifyEndTable

SpecVerify == VerifyInit /\ [][VerifyNext]_vars

\* The verifier is never held up: every check that can be evaluated is.
SpecVerifyFair == SpecVerify /\ WF_vars(VerifyNext)

\* ------------------------------------------------------------------
\* Properties
\* ------------------------------------------------------------------

\* The defaults the schema declares, as the generated accessors state them.
SchemaDefault(type, name) ==
  CASE type = "Monster" /\ name = "mana" -> 150
    [] type = "Monster" /\ name = "hp" -> 100
    [] type = "Monster" /\ name = "color" -> 8
    [] type = "TestSimpleTableWithEnum" /\ name = "color" -> 2
    [] OTHER -> 0

\* The table the last accessor call read, and the accessor called.
GotTable == Pos(got.obj)

GotAccessor == AccessorNamed(objs[got.obj].ty, got.name)

\* The vtable of the table at t, found from the signed offset stored at t.
VTableOf(B, t) == t - ReadS(B, t, 4)

\* The slot at vtable offset off is absent: beyond the vtable's length, or 0.
SlotAbsent(B, t, off) ==
  off >= ReadU(B, VTableOf(B, t), 2) \/ ReadU(B, VTableOf(B, t) + off, 2) = 0

Expected(a, v) ==
  CASE a.kind \in {"scalar", "struct"} -> v
    [] v = 0 -> nullptr
    [] a.kind = "string" -> objs[v].val
    [] a.kind = "vector" /\ a.ty \in {"uint8", "Test"} -> objs[v].val
    [] a.kind = "vector" -> [k \in 1..Len(objs[v].val) |-> Pos(objs[v].val[k])]
    [] OTHER -> Pos(v)

\* C2: a field built with value v reads back v, for every field type
\* (scalar, struct, string, vector, table, union; the elements of a vector
\* of strings read back as the strings built); a scalar built with its
\* default reads back the default, its add call wrote no byte and its slot
\* is absent.
C2_RoundTrip ==
  (got.name # "none" /\ got.name \in DOMAIN objs[got.obj].val) =>
    LET a == GotAccessor
        v == objs[got.obj].val[got.name]
    IN /\ IF a.kind = "scalar" THEN got.val = v
          ELSE IF a.kind # "struct" /\ v = 0 THEN got.raw = nullptr
          ELSE got.raw # nullptr /\ got.val = Expected(a, v)
       /\ (a.kind = "vector" /\ a.ty = "string" /\ got.raw # nullptr) =>
            \A k \in 1..Len(got.val) :
              StringBytes(fbb.buf, got.val[k]) = objs[objs[v].val[k]].val
       /\ (a.kind = "scalar" /\ v = SchemaDefault(objs[got.obj].ty, got.name)) =>
            /\ objs[got.obj].wrote[got.name] = 0
            /\ SlotAbsent(fbb.buf, GotTable, a.off)

\* C2 witness: testarrayofstring() read back a vector of two strings.
C2_Witness ==
  /\ got.name = "testarrayofstring"
  /\ got.raw # nullptr
  /\ Len(got.val) = 2
  /\ "testarrayofstring" \in DOMAIN objs[got.obj].val

\* The position, after the step, of the table the step added to objs.
NewTable == Len(fbb'.buf) - objs'[Len(objs')].off

\* C3: an add call made between StartTable and EndTable with a scalar equal
\* to its declared default (add_mana(150), add_hp(100)) leaves the buffer's
\* contents and size and the recorded fields unchanged, and the vtable of
\* the table when it is ended has that slot absent.
C3_AddDefaultWritesNothing ==
  [][/\ (phase = "table" /\ phase' = "table") =>
          \A n \in DOMAIN builder_'.vals \ DOMAIN builder_.vals :
            (/\ AccessorNamed("Monster", n).kind = "scalar"
             /\ builder_'.vals[n] = SchemaDefault("Monster", n))
            => fbb'.buf = fbb.buf /\ fbb'.offsetbuf = fbb.offsetbuf
     /\ (phase = "table" /\ phase' # "table") =>
          \A n \in DOMAIN builder_.vals :
            (/\ AccessorNamed("Monster", n).kind = "scalar"
             /\ builder_.vals[n] = SchemaDefault("Monster", n))
            => SlotAbsent(fbb'.buf, NewTable, AccessorNamed("Monster", n).off)
    ]_vars

\* C3 witness: a Monster was ended after add_mana(150) and another add that
\* wrote a field.
C3_Witness ==
  \E i \in 1..Len(objs) :
    /\ objs[i].kind = "table" /\ objs[i].ty = "Monster"
    /\ "mana" \in DOMAIN objs[i].val
    /\ objs[i].val["mana"] = 150
    /\ "name" \in DOMAIN objs[i].val

\* The Monster tables built without add_name.
Nameless ==
  {i \in 1..Len(objs) : /\ objs[i].kind = "table" /\ objs[i].ty = "Monster"
                        /\ "name" \notin DOMAIN objs[i].val}

\* C4: finishing the buffer fails and leaves no buffer when a Monster was
\* built without name, and succeeds when every Monster has its name; and
\* the verifier rejects a buffer in which a Monster's name slot is absent.
C4_RequiredName ==
  [][/\ (root = 0 /\ root' # 0) =>
          IF Nameless # {}
          THEN phase' = "failed" /\ fbb'.buf = fbb.buf
          ELSE phase' = "finished" /\ fbb'.buf # fbb.buf
     /\ (tamper'.kind = "field removed" /\ tamper'.field = "name") =>
          verdict' = "rejected"
    ]_vars

\* C4 witness: FinishMonsterBuffer was called with a Monster lacking name.
C4_Witness == phase = "failed" /\ root # 0 /\ Nameless # {}

\* C5: the check registered by Required is evaluated when the buffer is
\* finished and not before: only the step that finishes the buffer reports
\* a missing required field; ending the table does not.
C5_RequiredCheckedAtFinish ==
  [][(fbb'.failed \/ phase' = "failed") => (root = 0 /\ root' # 0)]_vars

\* C5 witness: a Monster without name was ended, its required field is
\* registered, and construction goes on.
C5_Witness ==
  /\ phase = "building"
  /\ Nameless # {}
  /\ fbb.required # <<>>
  /\ ~fbb.failed

\* The tables built so far.
Tables == {i \in 1..Len(objs) : objs[i].kind = "table"}

\* The bytes of the vtable the table at t refers to.
VTableAt(B, t) ==
  SubSeq(B, VTableOf(B, t) + 1, VTableOf(B, t) + ReadU(B, VTableOf(B, t), 2))

\* C6: the buffer holds exactly one vtable per distinct vtable content: the
\* stored vtables differ pairwise and are as many as the distinct vtables of
\* the tables built; tables with the same written fields at the same
\* offsets share one vtable; and every table's signed vtable offset leads
\* to the bytes of the vtable the table makes up alone.
C6_VTableDedup ==
  /\ \A i \in Tables : VTableAt(fbb.buf, Pos(i)) = objs[i].vtable
  /\ \A i, j \in Tables :
       objs[i].vtable = objs[j].vtable
         => VTableOf(fbb.buf, Pos(i)) = VTableOf(fbb.buf, Pos(j))
  /\ \A k, l \in 1..Len(fbb.vtables) :
       k # l => StoredVTable(fbb.buf, fbb.vtables[k]) # StoredVTable(fbb.buf, fbb.vtables[l])
  /\ Len(fbb.vtables) = Cardinality({objs[i].vtable : i \in Tables})

\* C6 witness: two tables with the same fields at the same offsets, and a
\* third vtable-distinct table, in one buffer.
C6_Witness ==
  \E i, j \in Tables :
    /\ i # j
    /\ objs[i].vtable = objs[j].vtable
    /\ Len(objs[i].vtable) > 4
    /\ VTableOf(fbb.buf, Pos(i)) = VTableOf(fbb.buf, Pos(j))

\* The kinds of change DoVerifyCorrupted makes to an offset field.
OffsetKinds ==
  {"root offset", "vtable offset", "vtable entry", "object offset",
   "untyped union offset"}

\* C9 as stated: the verifier rejects the finished buffer truncated at any
\* byte boundary, and the finished buffer with any one offset field (root
\* offset, vtable offset, vtable entry, string, vector, table or union
\* offset) changed to a value that resolves outside the buffer.
C9_AnyTruncationOrOffsetRejected ==
  (tamper.kind = "truncated" \/ tamper.kind \in OffsetKinds) => verdict = "rejected"

\* C9 amended: the verifier rejects the finished buffer truncated so that a
\* byte of an object reachable from the root is cut off (the root offset
\* and identifier, a table's vtable offset, vtable or fields, a string's or
\* vector's length or elements), and the finished buffer with one offset
\* field on a path from the root changed to resolve outside the buffer,
\* except the offset of a union whose type is NONE.
C9_ReachedBytesGuarded ==
  /\ (tamper.kind = "truncated" /\ tamper.at < ReachedLen) => verdict = "rejected"
  /\ (tamper.kind \in OffsetKinds \ {"untyped union offset"}) => verdict = "rejected"

\* C9 witness: a buffer cut inside the name of its root was rejected.
C9_Witness ==
  /\ tamper.kind = "truncated"
  /\ tamper.at < ReachedLen
  /\ tamper.at > Pos(root)
  /\ verdict = "rejected"

\* The value is schema-conformant: a union with a type other than NONE
\* refers to a table of that type.
Conformant ==
  \A i \in Tables :
    (objs[i].ty = "Monster" /\ "test" \in DOMAIN objs[i].val /\ TagOf(i) # Any_NONE)
      => objs[objs[i].val["test"]].ty = AnyTypeName(TagOf(i))

\* The number of tables on the longest chain of tables from object i down.
RECURSIVE Depth(_)
Depth(i) ==
  (IF objs[i].kind = "table" THEN 1 ELSE 0)
  + MaxOf({0} \cup {Depth(c) : c \in Children(i)})

\* C10: the verifier accepts every buffer the builder finished from a
\* schema-conformant value whose tables nest within the depth limit,
\* whichever optional fields are set.
C10_VerifierCompleteness ==
  (tamper.kind = "intact" /\ Conformant /\ Depth(root) <= max_depth)
    => verdict = "ok"

\* C10 witness: a finished buffer whose root holds a union of type
\* TestSimpleTableWithEnum was verified and accepted.
C10_Witness ==
  /\ tamper.kind = "intact"
  /\ verdict = "ok"
  /\ Conformant
  /\ TagOf(root) = Any_TestSimpleTableWithEnum
  /\ "test" \in DOMAIN objs[root].val


\* ------------------------------------------------------------------
\* The schema compiler's properties, stated of SpecSchema.
\* ------------------------------------------------------------------

\* The position in the declaration of the field called name.
FieldPos(name) == CHOOSE k \in 1..Len(decl.fields) : decl.fields[k].name = name

Declared(name) == \E k \in 1..Len(decl.fields) : decl.fields[k].name = name

Emitted(kind) == {code[j] : j \in {j \in 1..Len(code) : code[j].kind = kind}}

Live == {decl.fields[k].name : k \in {k \in 1..Len(decl.fields) : ~decl.fields[k].deprecated}}

\* C7: every field of a table, deprecated ones included, has the vtable
\* offset 4 + 2 * (its zero-based position in the declaration); an emitted
\* accessor reads at that offset and an emitted add method writes that
\* slot; a deprecated field has neither, every other field has both once
\* the class is generated; startObject is passed the number of declared
\* fields, deprecated ones included. The generated Monster agrees: its
\* accessors and add methods use the offsets of the declaration, none uses
\* offset 12, and its Finish passes 25 fields to EndTable.
C7_SlotNumbering ==
  ~decl.fixed =>
    /\ \A k \in 1..Len(struct_def.fields) :
         /\ struct_def.fields[k].name = decl.fields[k].name
         /\ struct_def.fields[k].offset = 4 + 2 * (k - 1)
    /\ \A m \in Emitted("accessor") :
         /\ Declared(m.name)
         /\ ~decl.fields[FieldPos(m.name)].deprecated
         /\ m.num = 4 + 2 * (FieldPos(m.name) - 1)
    /\ \A m \in Emitted("add") :
         /\ Declared(m.name)
         /\ ~decl.fields[FieldPos(m.name)].deprecated
         /\ m.num = FieldPos(m.name) - 1
    /\ \A m \in Emitted("startObject") : m.num = Len(decl.fields)
    /\ pc \in {"adds", "done"} =>
         /\ {m.name : m \in Emitted("accessor")} = Live
         /\ Emitted("startObject") # {}
    /\ pc = "done" => {m.name : m \in Emitted("add")} = Live
    /\ (decl = MonsterDecl /\ pc = "done") =>
         /\ {<<m.name, m.num>> : m \in Emitted("accessor")}
              = {<<MonsterAccessors[k].name, MonsterAccessors[k].off>> :
                   k \in 1..Len(MonsterAccessors)}
         /\ {<<m.name, FieldIndexToOffset(m.num)>> : m \in Emitted("add")}
              = {<<MonsterBuilderAdds[k].name, MonsterBuilderAdds[k].off>> :
                   k \in 1..Len(MonsterBuilderAdds)}
         /\ \A k \in 1..Len(MonsterBuilderAdds) : MonsterBuilderAdds[k].off # 12
         /\ \A m \in Emitted("startObject") : m.num = Monster_numfields

\* A table with a deprecated field declared before a field that is not
\* has been generated.
C7_Witness ==
  /\ ~decl.fixed
  /\ pc = "done"
  /\ \E k, j \in 1..Len(decl.fields) :
       /\ k < j
       /\ decl.fields[k].deprecated
       /\ ~decl.fields[j].deprecated
       /\ \E m \in Emitted("add") : m.name = decl.fields[j].name /\ m.num = j - 1

\* Where the field after field k of the struct may start at the earliest.
FieldEnd(k) ==
  IF k = 0 THEN 0
  ELSE struct_def.fields[k].offset + InlineSize(struct_def.fields[k].ty)

\* The least multiple of align that is at least n.
RoundUp(n, align) == n + PaddingBytes(n, align)

MaxFieldAlignment ==
  MaxOf({1} \cup {InlineAlignment(decl.fields[k].ty) : k \in 1..Len(decl.fields)})

\* The bytes the statements of a struct constructor write.
RECURSIVE BodyBytes(_, _)
BodyBytes(body, k) ==
  IF k = 0 THEN 0
  ELSE (IF body[k].op = "prep" THEN 0 ELSE body[k].n) + BodyBytes(body, k - 1)

\* The generated C++ struct of the declaration, where there is one.
HeaderStructs == {Test_struct, Vec3_struct}

\* Placement of the fields, size, and agreement with the generated code:
\* what the claim and its amendment have in common.
StructPlacement ==
  /\ \A k \in 1..Len(struct_def.fields) :
       /\ struct_def.fields[k].name = decl.fields[k].name
       /\ struct_def.fields[k].offset % InlineAlignment(struct_def.fields[k].ty) = 0
       /\ struct_def.fields[k].offset
            = RoundUp(FieldEnd(k - 1), InlineAlignment(struct_def.fields[k].ty))
  /\ pc # "parse" =>
       /\ struct_def.bytesize
            = RoundUp(FieldEnd(Len(struct_def.fields)), struct_def.minalign)
       /\ \A h \in HeaderStructs :
            h.name = decl.name =>
              /\ h.size = struct_def.bytesize
              /\ h.size = SumSizes(h.members, Len(h.members))
              /\ \A k \in 1..Len(struct_def.fields) :
                   MemberOffset(h.members, struct_def.fields[k].name)
                     = struct_def.fields[k].offset
  /\ \A m \in Emitted("create") :
       /\ m.body[1].op = "prep"
       /\ m.body[1].n = struct_def.bytesize
       /\ m.body[1].align = struct_def.minalign
       /\ BodyBytes(m.body, Len(m.body)) = struct_def.bytesize

\* C8 as the specification states it: the fields of a fixed struct lie in
\* declaration order, each at the first multiple of its alignment after
\* the field before it; the struct's alignment equals the largest
\* alignment of its fields; its size is the end of the last field rounded
\* up to that alignment (Test: alignment 2, size 4; Vec3: size 32).
C8_AlignmentIsMaxOfFields ==
  decl.fixed =>
    /\ StructPlacement
    /\ pc # "parse" =>
         /\ struct_def.minalign = MaxFieldAlignment
         /\ \A h \in HeaderStructs :
              h.name = decl.name => h.align = MaxFieldAlignment

\* C8, amended: the fields of a fixed struct lie in declaration order,
\* each at the first multiple of its alignment after the field before it;
\* the struct's alignment is the largest alignment of its fields, or the
\* alignment the schema forces on the struct when that is larger (Vec3:
\* 16, over its fields' 8); its size is the end of the last field rounded
\* up to the struct's alignment (Test: alignment 2, size 4; Vec3: size 32).
C8_StructLayout ==
  decl.fixed =>
    /\ StructPlacement
    /\ pc # "parse" =>
         /\ struct_def.minalign = Max(MaxFieldAlignment, decl.force_align)
         /\ \A h \in HeaderStructs :
              h.name = decl.name =>
                h.align = Max(MaxFieldAlignment, decl.force_align)

\* A struct with padding before a field and after its last field has been
\* laid out and its constructor generated.
C8_Witness ==
  /\ decl.fixed
  /\ pc = "done"
  /\ Emitted("create") # {}
  /\ \E k \in 2..Len(struct_def.fields) :
       struct_def.fields[k].offset > FieldEnd(k - 1)
  /\ struct_def.bytesize > FieldEnd(Len(struct_def.fields))


\* ------------------------------------------------------------------
\* Schema evolution
\* ------------------------------------------------------------------

\* Version n of the Monster schema: its first n fields.
MonsterVersion(n) == [MonsterDecl EXCEPT !.fields = SubSeq(@, 1, n)]

\* The position of a Monster field in the declaration.
MonsterFieldPos(name) ==
  CHOOSE k \in 1..Len(MonsterDecl.fields) : MonsterDecl.fields[k].name = name

\* What the accessor generated from version n of the schema returns for
\* the field called name of the table at t.
ReadUnderVersion(n, B, t, name) ==
  LET gen == GenAccessor(ParseDecl(MonsterVersion(n)), MonsterFieldPos(name))
      a == AccessorNamed("Monster", name)
  IN Accessor(B, t, [a EXCEPT !.off = gen.num, !.def = gen.constant])

\* C11: a buffer built against a version of the Monster schema that lacks
\* the fields appended later is accepted by the verifier of the later
\* schema; read with the later schema, an appended field gives its default
\* (scalar) or the absent indicator (string, vector, table), and a field of
\* the producer's version gives what the accessor generated from that
\* version gives.
C11_ForwardCompatibility ==
  /\ (tamper.kind = "intact" /\ NewerFields # {} /\ Conformant
        /\ Depth(root) <= max_depth)
       => verdict = "ok"
  /\ (got.name # "none" /\ objs[got.obj].ty = "Monster") =>
       IF got.name \in NewerFields
       THEN /\ SlotAbsent(fbb.buf, GotTable, GotAccessor.off)
            /\ IF GotAccessor.kind = "scalar"
               THEN got.raw = SchemaDefault("Monster", got.name)
               ELSE got.raw = nullptr
       ELSE got.raw = ReadUnderVersion(ProducerVersion, fbb.buf, GotTable, got.name)

\* C11 witness: testbool(), a field the producer's schema does not have,
\* was read from a Monster built with an inventory.
C11_Witness ==
  /\ got.name = "testbool"
  /\ "testbool" \in NewerFields
  /\ objs[got.obj].ty = "Monster"
  /\ "inventory" \in DOMAIN objs[got.obj].val
  /\ got.raw = 0


\* ------------------------------------------------------------------
\* The verifier's properties, stated of SpecVerify.
\* ------------------------------------------------------------------

\* The verifier is done with the buffer.
Decided == verdict \in {"ok", "rejected"}

\* The tables being verified lie at strictly increasing positions: an
\* unsigned offset leads forward, so no table is entered again while it is
\* being verified.
Descending == \A k \in 1..(Len(stack) - 1) : stack[k].t < stack[k + 1].t

\* The depth stays within the limit: a table beyond it is rejected by the
\* first check made on it, and no other check is ever evaluated there.
WithinDepth ==
  /\ Len(stack) <= max_depth + 1
  /\ \A k \in 1..Len(log) :
       log[k].depth > max_depth =>
         /\ log[k].op = "VerifyTableStart"
         /\ ~log[k].ok
         /\ k = Len(log)

\* C12: on every buffer handed to it the verifier comes to a verdict, ok or
\* rejected, the one VerifyMonsterBuffer computes; while it works the
\* tables nested through enemy, testarrayoftables and the union test are
\* never verified beyond the depth limit, no table is entered again while
\* it is being verified, and a buffer whose Monsters nest deeper than the
\* limit is rejected.
C12_VerifyTerminates ==
  /\ [](WithinDepth /\ Descending)
  /\ [](Decided => (stack = <<>> /\ verdict = Verdict(view)))
  /\ []((Decided /\ tamper.kind = "intact" /\ input.depth > max_depth)
          => verdict = "rejected")
  /\ <>Decided

\* C12 witness: an intact buffer with one Monster more than the limit
\* nested through testarrayoftables was rejected at the innermost table's
\* VerifyTableStart.
C12_Witness ==
  /\ verdict = "rejected"
  /\ tamper.kind = "intact"
  /\ input.depth = max_depth + 1
  /\ input.link = "testarrayoftables"
  /\ log[Len(log)].op = "VerifyTableStart"
  /\ log[Len(log)].depth = max_depth + 1


\* ------------------------------------------------------------------
\* References
\* ------------------------------------------------------------------

PointerKinds == {"string", "vector", "table", "union"}

\* The offset fields object i holds, each with the object it was built to
\* refer to: the present string, vector, table and union fields of a
\* table, the elements of a vector of strings or tables.
OffsetFields(B, i) ==
  CASE objs[i].kind = "table" ->
         {[at |-> Pos(i) + GetOptionalFieldOffset(B, Pos(i), a.off),
           to |-> IF a.name \in DOMAIN objs[i].val THEN objs[i].val[a.name] ELSE 0] :
          a \in {a \in {Accessors(objs[i].ty)[k] : k \in 1..Len(Accessors(objs[i].ty))} :
                   /\ a.kind \in PointerKinds
                   /\ GetOptionalFieldOffset(B, Pos(i), a.off) # 0}}
    [] objs[i].kind = "vector" /\ objs[i].ty \in {"string", "Monster"} ->
         {[at |-> Pos(i) + 4 * k, to |-> objs[i].val[k]] : k \in 1..Len(objs[i].val)}
    [] OTHER -> {}

\* The offset fields written so far for the table under construction.
OpenOffsetFields(B) ==
  {[at |-> Len(B) - fbb.offsetbuf[k][1],
    to |-> builder_.vals[CHOOSE n \in DOMAIN builder_.vals :
                           AccessorNamed(builder_.type, n).off = fbb.offsetbuf[k][2]]] :
   k \in {k \in 1..Len(fbb.offsetbuf) :
            \E n \in DOMAIN builder_.vals :
              /\ AccessorNamed(builder_.type, n).off = fbb.offsetbuf[k][2]
              /\ AccessorNamed(builder_.type, n).kind \in PointerKinds}}

\* One past the inline bytes of object i: a table's fields, a vector's
\* elements.
InlineEnd(B, i) ==
  IF objs[i].kind = "table"
  THEN Pos(i) + ReadU(B, VTableOf(B, Pos(i)) + 2, 2)
  ELSE Pos(i) + 4 + 4 * Len(objs[i].val)

\* C13: at every point of construction, every offset stored in the buffer
\* (a table's string, vector, table or union field, an element of a vector
\* of strings or tables) is positive and, added to the position of the
\* field holding it, gives the start of the object it was built to refer
\* to; that object was created before the holder and lies wholly at higher
\* addresses than the holder.
C13_ReferencesBackward ==
  /\ \A i \in 1..Len(objs) : \A f \in OffsetFields(fbb.buf, i) :
       /\ f.to \in 1..(i - 1)
       /\ ReadU(fbb.buf, f.at, 4) > 0
       /\ f.at + ReadU(fbb.buf, f.at, 4) = Pos(f.to)
       /\ Pos(f.to) >= InlineEnd(fbb.buf, i)
  /\ phase = "table" =>
       \A f \in OpenOffsetFields(fbb.buf) :
         /\ f.to \in 1..Len(objs)
         /\ ReadU(fbb.buf, f.at, 4) > 0
         /\ f.at + ReadU(fbb.buf, f.at, 4) = Pos(f.to)

\* C13 witness: while a Monster is under construction with its name
\* written, the buffer holds a vector of two offsets to strings.
C13_Witness ==
  /\ phase = "table"
  /\ OpenOffsetFields(fbb.buf) # {}
  /\ \E i \in 1..Len(objs) :
       /\ objs[i].kind = "vector" /\ objs[i].ty = "string"
       /\ Cardinality(OffsetFields(fbb.buf, i)) = 2

\* ------------------------------------------------------------------
\* Builder usage errors
\* ------------------------------------------------------------------

\* C14: a producer that adds a field after the table's EndTable, or ends the
\* same table twice, is stopped by that very call; one that adds a field at
\* a slot the table does not declare is stopped when the table is ended;
\* once stopped the builder stays stopped and its buffer is never finished.
C14_UsageErrorsFatal ==
  /\ fbb.failed => phase = "failed"
  /\ misuse # "none" => (phase # "finished" /\ root = 0 /\ view = <<>>)
  /\ misuse \in {"add after EndTable", "EndTable twice"} =>
       (fbb.failed /\ phase = "failed")
  /\ misuse = "undeclared slot" =>
       \/ phase = "table" /\ fbb.nested /\ ~fbb.failed
                          /\ VTableSlots(fbb.offsetbuf) > Monster_numfields
       \/ phase = "failed" /\ fbb.failed

C14_Witness ==
  /\ misuse = "undeclared slot"
  /\ phase = "failed"
  /\ Len(objs) >= 2
  /\ "mana" \in DOMAIN objs[Len(objs)].val

\* ------------------------------------------------------------------
\* In-place mutation
\* ------------------------------------------------------------------

\* The bytes of the buffer a mutate call may change: those the table stores
\* the field in (none when the field is absent), or those of the member of
\* the struct at pos.
MutatedBytes ==
  LET t == Pos(tamper.at)
  IN IF got.name = "pos"
     THEN LET p == GetStruct(fbb.buf, t, Monster_pos.off)
              m == CHOOSE m \in {StructMutators[k] : k \in 1..Len(StructMutators)} :
                     m.name = tamper.field
              at == CASE m.name = "test3.a" -> MemberOffset(Vec3_members, "test3")
                                               + MemberOffset(Test_members, "a")
                      [] m.name = "test3.b" -> MemberOffset(Vec3_members, "test3")
                                               + MemberOffset(Test_members, "b")
                      [] OTHER -> MemberOffset(Vec3_members, m.name)
          IN (p + at + 1)..(p + at + SizeOf(m.ty))
     ELSE LET a == AccessorNamed(objs[tamper.at].ty, tamper.field)
              off == GetOptionalFieldOffset(fbb.buf, t, a.off)
          IN IF off = 0 THEN {} ELSE (t + off + 1)..(t + off + SizeOf(a.ty))

\* What the accessors return on buffer B: for every table and accessor but
\* the one excepted, the result and what the caller reads through it.
OtherAccessors(B, i, name) ==
  [j \in {j \in 1..Len(objs) : objs[j].kind = "table"} |->
     [k \in {k \in 1..Len(Accessors(objs[j].ty)) :
               j # i \/ Accessors(objs[j].ty)[k].name # name} |->
        LET a == Accessors(objs[j].ty)[k]
            r == Accessor(B, Len(B) - objs[j].off, a)
        IN <<r, Decode(B, a, r)>>]]

\* The struct at pos as the caller reads it, with the member called name
\* replaced by v.
WithMember(s, name, v) ==
  CASE name = "test3.a" -> [s EXCEPT !.test3.a = v]
    [] name = "test3.b" -> [s EXCEPT !.test3.b = v]
    [] OTHER -> [s EXCEPT ![name] = v]

\* C15: a mutate call on a finished buffer keeps the buffer's length and
\* every byte outside the field's own bytes; on an absent table field it
\* writes nothing and returns false; on a present field, or a member of the
\* struct at pos, the accessor then returns the new value; every other
\* accessor of every table returns what it returned before.
C15_MutationInPlace ==
  tamper.kind = "mutated" =>
    LET i == tamper.at
        t == Pos(i)
    IN /\ Len(view) = Len(fbb.buf)
       /\ \A k \in 1..Len(view) : k \notin MutatedBytes => view[k] = fbb.buf[k]
       /\ OtherAccessors(view, i, got.name) = OtherAccessors(fbb.buf, i, got.name)
       /\ IF got.name = "pos"
          THEN LET p == GetStruct(fbb.buf, t, Monster_pos.off)
               IN /\ Accessor(view, t, Monster_pos) = p
                  /\ Decode(view, Monster_pos, p)
                       = WithMember(Decode(fbb.buf, Monster_pos, p), tamper.field, tamper.val)
          ELSE LET a == AccessorNamed(objs[i].ty, got.name)
               IN /\ (got.raw = 1) = ~SlotAbsent(fbb.buf, t, a.off)
                  /\ got.raw = 0 => /\ view = fbb.buf
                                    /\ Accessor(view, t, a) = a.def
                  /\ got.raw = 1 => Accessor(view, t, a) = tamper.val

\* A Monster whose mana is stored has been given a new mana.
C15_Witness ==
  /\ tamper.kind = "mutated"
  /\ tamper.field = "mana"
  /\ got.raw = 1
  /\ tamper.val # GetField(fbb.buf, Pos(tamper.at), 6, "int16", 150)
  /\ view # fbb.buf

\* ------------------------------------------------------------------
\* Buffer header
\* ------------------------------------------------------------------

\* C16: in every buffer FinishMonsterBuffer returned, the offset in the
\* first four bytes is positive and leads from position 0 to the table
\* passed as root, the next four bytes are "MONS", MonsterBufferHasIdentifier
\* returns true and GetMonster returns the root table.
C16_BufferHeader ==
  phase = "finished" =>
    /\ Len(fbb.buf) >= 8
    /\ ReadU(fbb.buf, 0, 4) > 0
    /\ 0 + ReadU(fbb.buf, 0, 4) = Pos(root)
    /\ objs[root].kind = "table" /\ objs[root].ty = "Monster"
    /\ StoredVTable(fbb.buf, Len(fbb.buf) - VTableOf(fbb.buf, Pos(root)))
         = objs[root].vtable
    /\ SubSeq(fbb.buf, 5, 8) = <<77, 79, 78, 83>>
    /\ MonsterBufferHasIdentifier(fbb.buf)
    /\ GetMonster(fbb.buf) = Pos(root)

\* A finished buffer whose root is not the only table and which needed
\* padding before the header.
C16_Witness ==
  /\ phase = "finished"
  /\ Cardinality(ObjsOf("table", "Monster")) >= 2
  /\ GetMonster(fbb.buf) > 8

\* ------------------------------------------------------------------
\* Union verification
\* ------------------------------------------------------------------

\* The type byte and the pointer of the union of the Monster at t, as its
\* accessors test_type() and test() return them.
UnionType(B, t) == Accessor(B, t, Monster_test_type)

UnionPointer(B, t) == Accessor(B, t, Monster_test)

\* C17: Monster::Verify checks the union as the one-byte field at slot 18
\* and the offset field at slot 20, then VerifyAny: with type NONE it passes
\* and no table is gone into, whatever the offset holds; with type Monster
\* or TestSimpleTableWithEnum it goes on to verify the table test() returns
\* as a table of that type, one level deeper (nothing when test() is null);
\* with any other type it fails, and that ends the verification.
C17_UnionVerification ==
  \A k \in 1..Len(log) :
    log[k].op = "VerifyAny" =>
      LET e == log[k]
          type == UnionType(view, e.t)
          p == UnionPointer(view, e.t)
      IN /\ e.type = "Monster" /\ e.off = Monster_test.off
         /\ k > 2
         /\ log[k - 2].t = e.t /\ log[k - 2].op = "VerifyField" /\ log[k - 2].ok
         /\ log[k - 2].off = Monster_test_type.off /\ log[k - 2].ty = "uint8"
         /\ log[k - 1].t = e.t /\ log[k - 1].op = "VerifyField" /\ log[k - 1].ok
         /\ log[k - 1].off = Monster_test.off /\ log[k - 1].ty = "uoffset"
         /\ type = Any_NONE => (e.ok /\ e.into = nullptr)
         /\ type \in {Any_Monster, Any_TestSimpleTableWithEnum} =>
              /\ e.ok /\ e.into = p
              /\ (p # nullptr /\ k < Len(log)) =>
                   /\ log[k + 1].t = p
                   /\ log[k + 1].type = AnyTypeName(type)
                   /\ log[k + 1].op = "VerifyTableStart"
                   /\ log[k + 1].depth = e.depth + 1
              /\ (p # nullptr /\ k = Len(log)) =>
                   /\ Top.t = p /\ Top.type = AnyTypeName(type) /\ Top.i = 1
                   /\ Len(stack) = e.depth + 1
              /\ (verdict = "ok" /\ p # nullptr) =>
                   VerifyTable(view, p, AnyTypeName(type), e.depth)
         /\ type \notin {Any_NONE, Any_Monster, Any_TestSimpleTableWithEnum} =>
              (~e.ok /\ k = Len(log) /\ verdict = "rejected" /\ stack = <<>>)

\* A buffer is accepted whose union has type NONE and an offset overwritten
\* to lead outside the buffer.
C17_Witness ==
  /\ verdict = "ok"
  /\ tamper.kind = "overwritten"
  /\ \E k \in 1..Len(log) :
       /\ log[k].op = "VerifyAny"
       /\ UnionType(view, log[k].t) = Any_NONE
       /\ UnionPointer(view, log[k].t) > Len(view)

\* ------------------------------------------------------------------
\* Order of the checks in a generated Verify
\* ------------------------------------------------------------------

\* The checks that read or verify what a field refers to.
PointeeOps ==
  {"VerifyString", "VerifyVector", "VerifyVectorOfStrings", "VerifyVectorOfTables",
   "VerifyTable", "VerifyAny"}

\* The check of a field's own slot, as an offset.
IsSlotCheck(e) ==
  /\ e.op \in {"VerifyField", "VerifyFieldRequired"}
  /\ e.ty = "uoffset"

\* C18: every Verify starts with VerifyTableStart and ends with EndTable: a
\* table is gone into by VerifyTableStart and left only by EndTable; a
\* check that reads or verifies what a field refers to comes after the
\* passed check of that field's slot in the same table; a failed check is
\* the last one evaluated and the buffer is rejected.
C18_CheckBeforeUse ==
  /\ \A type \in {"Monster", "Stat", "TestSimpleTableWithEnum"} :
       /\ VerifyChain(type)[1].op = "VerifyTableStart"
       /\ VerifyChain(type)[Len(VerifyChain(type))].op = "EndTable"
       /\ \A i \in 2..(Len(VerifyChain(type)) - 1) :
            VerifyChain(type)[i].op \notin {"VerifyTableStart", "EndTable"}
  /\ \A k \in 1..Len(log) :
       LET e == log[k]
       IN /\ ~e.ok => (k = Len(log) /\ verdict = "rejected" /\ stack = <<>>
                       /\ e.into = nullptr)
          /\ (k > 1) =>
               ((log[k - 1].into # nullptr) <=> (e.op = "VerifyTableStart"))
          /\ (k > 1 /\ e.op = "VerifyTableStart") =>
               (e.t = log[k - 1].into /\ e.depth = log[k - 1].depth + 1)
          /\ (k > 1 /\ e.op # "VerifyTableStart") =>
               IF log[k - 1].op = "EndTable"
               THEN e.depth = log[k - 1].depth - 1
               ELSE e.depth = log[k - 1].depth /\ e.t = log[k - 1].t
          /\ e.op \in PointeeOps =>
               \E j \in 1..(k - 1) :
                 /\ IsSlotCheck(log[j]) /\ log[j].ok
                 /\ log[j].t = e.t /\ log[j].off = e.off /\ log[j].depth = e.depth
  /\ verdict = "ok" =>
       (log[Len(log)].op = "EndTable" /\ log[Len(log)].depth = 1
        /\ log[Len(log)].t = GetRoot(view))

\* A buffer is rejected at the check of the slot of a Stat's id, after the
\* Monster above it passed the check of the slot and went into the Stat.
C18_Witness ==
  /\ verdict = "rejected"
  /\ Len(log) > 2
  /\ log[Len(log)].type = "Stat"
  /\ IsSlotCheck(log[Len(log)])
  /\ ~log[Len(log)].ok
  /\ log[Len(log)].depth = 2

\* ------------------------------------------------------------------
\* The generated struct constructor, run on the Java builder
\* ------------------------------------------------------------------

\* FlatBufferBuilder.prep(size, additional_bytes): pads so that the buffer
\* is aligned to size once additional_bytes more have been written.
Java_prep(b, size, additional_bytes) == PreAlign(b, additional_bytes, size)

\* FlatBufferBuilder.pad(byte_size): that many zero bytes.
Java_pad(b, byte_size) == PushBytes(b, Zeros(byte_size))

\* FlatBufferBuilder.put<Type>(x): the value's bytes, with no alignment.
Java_put(b, x, n) == PushBytes(b, EndianScalar(x, n))

\* The argument passed for the put that statement k of the body is: the
\* number of puts up to it.
PutArg(body, k) == Cardinality({j \in 1..k : body[j].op = "put"})

\* The builder after the first k statements of a constructor body.
RECURSIVE RunBody(_, _, _)
RunBody(b, body, k) ==
  IF k = 0 THEN b
  ELSE LET b1 == RunBody(b, body, k - 1)
           st == body[k]
       IN CASE st.op = "prep" -> Java_prep(b1, st.align, st.n)
            [] st.op = "pad" -> Java_pad(b1, st.n)
            [] st.op = "put" -> Java_put(b1, PutArg(body, k), st.n)

\* The scalars of a struct in the order the constructor puts them (last
\* field first), each with its byte offset from the start of the outermost
\* struct and its size, as the StructDefs place them.
RECURSIVE Leaves(_, _, _)
Leaves(sd, k, base) ==
  IF k = 0 THEN <<>>
  ELSE LET field == sd.fields[k]
       IN (IF IsStruct(field.ty)
           THEN Leaves(StructDefOf(field.ty), Len(StructDefOf(field.ty).fields),
                       base + field.offset)
           ELSE <<[at |-> base + field.offset, n |-> SizeOf(field.ty)]>>)
          \o Leaves(sd, k - 1, base)

\* The bytes already in the builder when the constructor is called: up to
\* MaxPrefix of them.
MaxPrefix == 4

Prefix(s0) == [NewBuilder EXCEPT !.buf = [i \in 1..s0 |-> 255]]

\* C19: run on a builder holding any number of bytes, the emitted body of
\* a struct constructor pads to the struct's alignment once, in its first
\* prep, then writes exactly bytesize bytes; it leaves the argument of each
\* put at the byte offset the StructDef gives the field (a nested struct's
\* fields at its offset plus theirs), zeros everywhere else in the struct,
\* the struct aligned to minalign from the end of the buffer, and the bytes
\* that were there untouched.
C19_StructConstructor ==
  \A m \in Emitted("create") :
    \A s0 \in 0..MaxPrefix :
      LET b == RunBody(Prefix(s0), m.body, Len(m.body))
          first == RunBody(Prefix(s0), m.body, 1)
          leaves == Leaves(struct_def, Len(struct_def.fields), 0)
          size == struct_def.bytesize
      IN /\ GetSize(first) - s0 = PaddingBytes(s0 + size, struct_def.minalign)
         /\ GetSize(b) - GetSize(first) = size
         /\ GetSize(b) % struct_def.minalign = 0
         /\ SubSeq(b.buf, GetSize(b) - s0 + 1, GetSize(b)) = Prefix(s0).buf
         /\ Len(leaves) = PutArg(m.body, Len(m.body))
         /\ \A j \in 1..Len(leaves) :
              SubSeq(b.buf, leaves[j].at + 1, leaves[j].at + leaves[j].n)
                = EndianScalar(j, leaves[j].n)
         /\ \A x \in 1..(GetSize(b) - s0) :
              (\A j \in 1..Len(leaves) :
                 x <= leaves[j].at \/ x > leaves[j].at + leaves[j].n) => b.buf[x] = 0

\* The constructor of a struct that holds a struct and padding has been
\* generated.
C19_Witness ==
  /\ pc = "done"
  /\ decl.fixed
  /\ \E m \in Emitted("create") :
       /\ \E k \in 2..Len(m.body) : m.body[k].op = "prep"
       /\ \E k \in 1..Len(m.body) : m.body[k].op = "pad"
       /\ PutArg(m.body, Len(m.body)) >= 3

\* ------------------------------------------------------------------
\* The generated vector methods, run on the Java builder and buffer
\* ------------------------------------------------------------------

\* FlatBufferBuilder.startVector(elem_size, num_elems, alignment)
Java_startVector(b, elem_size, num_elems, alignment) ==
  Java_prep(Java_prep(b, 4, elem_size * num_elems), alignment, elem_size * num_elems)

\* FlatBufferBuilder.add<Type>(x): prep(size, 0), then put<Type>(x).
Java_add(b, x, n) == Java_put(Java_prep(b, n, 0), x, n)

\* FlatBufferBuilder.addOffset(off): the offset relative to where it is
\* written.
Java_addOffset(b, off) ==
  LET b1 == Java_prep(b, 4, 0) IN Java_put(b1, GetSize(b1) - off + 4, 4)

\* FlatBufferBuilder.endVector(): the element count; the vector's offset is
\* the size of the buffer then.
Java_endVector(b, num_elems) == Java_put(b, num_elems, 4)

\* Table.__offset(vtable_offset), __vector_len(o), __vector(o),
\* __indirect(p) and __string(p) on the table at bb_pos.
Java_offset(B, bb_pos, vtable_offset) == GetOptionalFieldOffset(B, bb_pos, vtable_offset)

Java_vector_len(B, bb_pos, o) ==
  ReadS(B, o + bb_pos + ReadS(B, o + bb_pos, 4), 4)

Java_vector(B, bb_pos, o) == o + bb_pos + ReadS(B, o + bb_pos, 4) + 4

Java_indirect(B, p) == p + ReadS(B, p, 4)

Java_string(B, p) ==
  LET s == p + ReadS(B, p, 4) IN SubSeq(B, s + 5, s + 4 + ReadS(B, s, 4))

\* The add call of the loop of a create method, by the element type.
JavaAddElement(b, elem, x) ==
  IF elem \in {"string", "Monster"} THEN Java_addOffset(b, x)
  ELSE Java_add(b, x, SizeOf(elem))

\* for (int i = data.length - 1; i >= 0; i--) builder.add<Type>(data[i]),
\* with k = i + 1.
RECURSIVE AddFromLast(_, _, _, _)
AddFromLast(b, elem, data, k) ==
  IF k = 0 THEN b
  ELSE AddFromLast(JavaAddElement(b, elem, data[k]), elem, data, k - 1)

\* The same loop running from index 0 up.
RECURSIVE AddFromFirst(_, _, _, _)
AddFromFirst(b, elem, data, k) ==
  IF k > Len(data) THEN b
  ELSE AddFromFirst(JavaAddElement(b, elem, data[k]), elem, data, k + 1)

\* The builder after the first k statements of an emitted create method
\* called with data.
RECURSIVE RunCreateVector(_, _, _, _)
RunCreateVector(b, body, data, k) ==
  IF k = 0 THEN b
  ELSE LET b1 == RunCreateVector(b, body, data, k - 1)
           st == body[k]
       IN CASE st.op = "startVector" -> Java_startVector(b1, st.n, Len(data), st.align)
            [] st.op = "addFromLast" -> AddFromLast(b1, st.name, data, Len(data))
            [] st.op = "addFromFirst" -> AddFromFirst(b1, st.name, data, 1)
            [] st.op = "endVector" -> Java_endVector(b1, Len(data))

\* The builder a create method is called on: s0 bytes, then for a vector
\* of strings or tables two such objects; offs are their offsets.
JavaObjects(elem, s0) ==
  CASE elem = "string" ->
         LET b1 == CreateString(Prefix(s0), <<65>>)
             b2 == CreateString(b1, <<66, 67>>)
         IN [b |-> b2, offs |-> <<GetSize(b1), GetSize(b2)>>]
    [] elem = "Monster" ->
         LET b1 == EndTable(StartTable_nested(Prefix(s0)), s0, 0)
             b2 == EndTable(AddElement(StartTable_nested(b1), 4, 7, 0, 2),
                            GetSize(b1), 1)
         IN [b |-> b2,
             offs |-> <<EndTableOffset(Prefix(s0)),
                        EndTableOffset(AddElement(StartTable_nested(b1), 4, 7, 0, 2))>>]
    [] OTHER -> [b |-> Prefix(s0), offs |-> <<>>]

\* The arrays a create method is called with: scalars, or offsets of the
\* objects created before.
JavaArrays(elem, offs) ==
  {<<>>} \cup SeqsUpTo(IF offs = <<>> THEN {0 - 2, 7} ELSE {offs[1], offs[2]}, MaxVecLen)

\* What the caller of <field>(j) is to get for the array element x.
JavaExpected(B, elem, x) ==
  CASE elem = "string" -> StringBytes(B, Len(B) - x)
    [] elem = "Monster" -> Len(B) - x
    [] OTHER -> x

\* <field>Length() as emitted.
JavaLength(B, bb_pos, len) ==
  LET o == Java_offset(B, bb_pos, len.num)
  IN IF o # 0 THEN Java_vector_len(B, bb_pos, o) ELSE 0

\* <field>(j) as emitted: the getter applied at __vector(o) + j * size.
JavaElement(B, bb_pos, acc, j) ==
  LET o == Java_offset(B, bb_pos, acc.num)
      elem == acc.body[1].name
      index == Java_vector(B, bb_pos, o) + j * acc.body[1].n
  IN IF o = 0 THEN 0
     ELSE CASE elem = "string" -> Java_string(B, index)
            [] elem = "Monster" -> Java_indirect(B, index)
            [] OTHER -> ReadS(B, index, SizeOf(elem))

EmittedFor(kind, name) == CHOOSE m \in Emitted(kind) : m.name = name

\* C20: for every vector field whose create method has been generated, on
\* a builder holding any bytes and for every array data: the method starts
\* a vector with the element's inline size and alignment and ends it with
\* data.length; the table then built with the emitted slot holding the
\* returned offset has <field>Length() = data.length, and <field>(j) yields
\* data[j] (the string or table the offset data[j] refers to) for every j,
\* read at the vector's first element + j * element size, which is aligned
\* to the element's alignment.
C20_VectorRoundTrip ==
  pc = "done" =>
    \A cv \in Emitted("createVector") :
      LET field == struct_def.fields[FieldPos(cv.name)]
          elem == VectorType(field.ty)
          acc == EmittedFor("accessor", cv.name)
          len == EmittedFor("length", cv.name)
          add == EmittedFor("add", cv.name)
          start == CHOOSE m \in Emitted("startObject") : TRUE
      IN /\ cv.body[1].n = InlineSize(elem)
         /\ cv.body[1].align = InlineAlignment(elem)
         /\ acc.body[1].n = InlineSize(elem)
         /\ \A s0 \in 0..MaxPrefix :
              LET objects == JavaObjects(elem, s0)
              IN \A data \in JavaArrays(elem, objects.offs) :
                   LET vb == RunCreateVector(objects.b, cv.body, data, Len(cv.body))
                       tb == AddOffset(StartTable_nested(vb),
                                       FieldIndexToOffset(add.num), GetSize(vb))
                       B == EndTable(tb, GetSize(vb), start.num).buf
                       bb_pos == Len(B) - EndTableOffset(tb)
                       first == Len(B) - GetSize(vb) + 4
                   IN /\ JavaLength(B, bb_pos, len) = Len(data)
                      /\ \A j \in 0..(Len(data) - 1) :
                           /\ JavaElement(B, bb_pos, acc, j)
                                = JavaExpected(B, elem, data[j + 1])
                           /\ Java_vector(B, bb_pos, Java_offset(B, bb_pos, acc.num))
                                = first
                      /\ (Len(B) - first) % InlineAlignment(elem) = 0

\* The methods of a vector of 8-byte elements have been generated for a
\* table whose first field is deprecated.
C20_Witness ==
  /\ pc = "done"
  /\ decl.fields[1].deprecated
  /\ \E cv \in Emitted("createVector") :
       /\ cv.body[1].n = 8
       /\ Emitted("length") # {}


\* ------------------------------------------------------------------
\* GenerateJava: the order of the definitions, and the first failure.
\* ------------------------------------------------------------------

\* The definitions of the parser in the order GenerateJava visits them.
JavaDefs ==
  [k \in 1..Len(parser.enums_) |->
     [kind |-> "enum", name |-> parser.enums_[k].name,
      generated |-> parser.enums_[k].generated]]
  \o [k \in 1..Len(parser.structs_) |->
        [kind |-> "struct", name |-> parser.structs_[k].name,
         generated |-> parser.structs_[k].generated]]

\* The names of the class files on disk, in the order they were written.
SavedNames ==
  LET saved == SelectSeq(files, LAMBDA f : f.kind = "file")
  IN [k \in 1..Len(saved) |-> saved[k].name]

\* The names of the definitions whose SaveClass call had code to save and
\* returned true, in the order of the calls.
SavedCalls ==
  LET saved == SelectSeq(calls, LAMBDA c : c.classcode # <<>> /\ c.ret)
  IN [k \in 1..Len(saved) |-> saved[k].name]

\* C21: GenerateJava visits the enums in parser order and then the structs
\* in parser order, one SaveClass call per definition and one class file,
\* named after it, per call that had code and succeeded; every call before
\* the last returned true, so that nothing is generated or saved after the
\* first failure; it returns false exactly when the last call failed, and
\* true only after a successful call for every definition; a definition
\* marked generated has empty code, and a call with empty code returns
\* true and writes no file.
C21_GenerateJava ==
  /\ Len(calls) <= Len(JavaDefs)
  /\ \A k \in 1..Len(calls) :
       /\ calls[k].kind = JavaDefs[k].kind
       /\ calls[k].name = JavaDefs[k].name
       /\ calls[k].needs_imports = (JavaDefs[k].kind = "struct")
       /\ (calls[k].classcode = <<>>) = JavaDefs[k].generated
       /\ calls[k].classcode = <<>> => calls[k].ret
       /\ k < Len(calls) => calls[k].ret
  /\ SavedNames = SavedCalls
  /\ \A f \in {files[k] : k \in 1..Len(files)} :
       f.kind = "file" =>
         /\ f.dir = <<OutPath>> \o parser.namespaces_
         /\ \E k \in 1..Len(calls) :
              /\ calls[k].name = f.name
              /\ f.code = Boilerplate(parser.namespaces_, calls[k].needs_imports,
                                      calls[k].classcode)
  /\ (result = "false") = (Len(calls) > 0 /\ ~calls[Len(calls)].ret)
  /\ result = "true" =>
       /\ Len(calls) = Len(JavaDefs)
       /\ \A k \in 1..Len(calls) : calls[k].ret

\* GenerateJava has returned false with definitions left unvisited, after
\* a generated definition that SaveClass passed over and a class file
\* that was saved.
C21_Witness ==
  /\ result = "false"
  /\ Len(calls) < Len(JavaDefs)
  /\ \E k \in 1..Len(calls) : calls[k].classcode = <<>> /\ calls[k].ret
  /\ Len(SavedNames) > 0
  /\ Len(files) > Len(SavedNames)

=============================================================================
